---- MODULE Spec2Model ----
(***************************************************************************)
(* Model of the get_rich chooser engine: Chooser and MultiChooser          *)
(* (src/src/get_rich/chooser.py, multi_chooser.py, base_control.py).       *)
(*                                                                         *)
(* Conventions.                                                            *)
(*  - The control object is the record `self`; its fields keep the names   *)
(*    of the Python attributes.  Fields whose name starts with "n_" are    *)
(*    ghost counters of hook invocations.                                  *)
(*  - Python's None is the empty tuple <<>>, a present value x is <<x>>.   *)
(*  - A str is a sequence of one-character strings; key tokens are TLA+    *)
(*    strings.  A Choice object is referred to by its position (1-based)   *)
(*    in all_choices; list indices of the program are 0-based integers.    *)
(*  - A method that mutates self is an operator from a control record to   *)
(*    a control record.  An exception raised inside a method is recorded   *)
(*    in the ghost field `exc` and ends the handler it occurs in.          *)
(***************************************************************************)
EXTENDS Integers, Sequences, FiniteSets, TLC

VARIABLES
    self,       \* the control object (Chooser / MultiChooser instance)
    pc,         \* position of run(): idle, prepare, acquire, poll, read,
                \*   chosen, release, unwind, after_run, done, raised
    confirmed,  \* value returned by the last _choose() call
    reader,     \* ghost: KeyReader scope: [entered, exited, held, misuse]
    iter,       \* ghost: what the current loop iteration has done
    life        \* ghost: lifecycle record of run()

vars == <<self, pc, confirmed, reader, iter, life>>

----------------------------------------------------------------------------
(* Bounds of the model *)

MaxChoices == 3       \* longest master list
MaxFilterLen == 2     \* longest filter text typed
MaxBound == 1         \* largest min_selected / max_selected
MaxCancels == 3       \* most consecutive cancel keys counted

----------------------------------------------------------------------------
(* Python values *)

None == <<>>
Some(x) == <<x>>
IsNone(o) == o = <<>>
Val(o) == o[1]

At(seq, i) == seq[i + 1]                 \* seq[i], 0-based
Max2(a, b) == IF a >= b THEN a ELSE b
Min2(a, b) == IF a <= b THEN a ELSE b

RECURSIVE SeqSum(_)
SeqSum(q) == IF q = <<>> THEN 0 ELSE Head(q) + SeqSum(Tail(q))

\* str.lower() on one character
lower_char(c) ==
    CASE c = "A" -> "a"
      [] c = "B" -> "b"
      [] OTHER -> c

\* str.lower()
lower(str) == [i \in 1..Len(str) |-> lower_char(str[i])]

\* Faulty variant of str_in: only the last character of the needle is looked for
str_in_last_char(needle, hay) ==
    \/ needle = <<>>
    \/ \E i \in 1..Len(hay) : hay[i] = needle[Len(needle)]

\* `needle in hay` for two str
str_in(needle, hay) ==
    \E i \in 0..(Len(hay) - Len(needle)) :
        SubSeq(hay, i + 1, i + Len(needle)) = needle

\* Console markup tags of the alphabet
MarkupTags == {"[b]", "[/b]", "[grey70]", "[/]"}

\* rich.text.Text.from_markup(s): the tags are parsed out of the plain text
from_markup(str) ==
    [plain |-> SelectSeq(str, LAMBDA c : c \notin MarkupTags), markup |-> str]

\* str(Text)
text_str(text) == text.plain

----------------------------------------------------------------------------
(* Key tokens *)

EMPTY_KEY == ""
PrintableKeys == {"a", "B"}          \* len(key) == 1 and key.isprintable()
Keys ==
    {EMPTY_KEY, "UP_ARROW", "DOWN_ARROW", "ENTER", "ESC", "CTRL_C", "HOME",
     "END", "PAGE_UP", "PAGE_DOWN", "BACKSPACE", "SPACE", "TAB"}
    \cup PrintableKeys

is_printable_char(key) == key \in PrintableKeys

DEFAULT_KEYBINDINGS ==
    [up |-> {"UP_ARROW"},
     down |-> {"DOWN_ARROW"},
     confirm |-> {"ENTER"},
     cancel |-> {"ESC", "CTRL_C"},
     home |-> {"HOME"},
     end |-> {"END"},
     page_up |-> {"PAGE_UP"},
     page_down |-> {"PAGE_DOWN"},
     backspace |-> {"BACKSPACE"}]

\* Faulty variant of _merge_keybindings: the user's keys are added to the
\* default keys of the action
_merge_keybindings_extend(overrides) ==
    [a \in DOMAIN DEFAULT_KEYBINDINGS \cup DOMAIN overrides |->
        (IF a \in DOMAIN overrides THEN overrides[a] ELSE {})
            \cup (IF a \in DOMAIN DEFAULT_KEYBINDINGS
                  THEN DEFAULT_KEYBINDINGS[a] ELSE {})]

\* BaseControl._merge_keybindings: an override replaces the action's list
_merge_keybindings(overrides) ==
    [a \in DOMAIN DEFAULT_KEYBINDINGS \cup DOMAIN overrides |->
        IF a \in DOMAIN overrides THEN overrides[a] ELSE DEFAULT_KEYBINDINGS[a]]

\* self.keybindings.get(action, [])
binding(s, action) ==
    IF action \in DOMAIN s.keybindings THEN s.keybindings[action] ELSE {}

----------------------------------------------------------------------------
(* Construction *)

\* The text of the i-th choice given to the constructor (0-based)
ChoiceSource(i) ==
    CASE i % 4 = 0 -> <<"a", "b">>
      [] i % 4 = 1 -> <<"[b]", "B", "[/b]">>
      [] i % 4 = 2 -> <<"A">>
      [] OTHER -> <<"b", "a">>

\* Chooser.Choice(i, Text.from_markup(choice))
Choice(i, str) ==
    [index |-> i, value |-> from_markup(str),
     is_highlighted |-> FALSE, is_selected |-> FALSE]

NoneNone == [value |-> None, index |-> None]      \* (None, None)

\* str(d) for a decimal digit d
DigitStr(d) == <<"0", "1", "2", "3", "4", "5", "6", "7", "8", "9">>[d + 1]

\* ShortcutChooser._init_shortcuts, line 104: the keys of auto mode
AutoShortcutKeys(num_choices) ==
    [i \in 1..num_choices |-> DigitStr(((i - 1) + 1) % 10)]

\* Faulty variant of KeyToIndex: the first occurrence of a key wins
KeyToIndex_first_wins(shortcut_keys) ==
    [key \in {shortcut_keys[i] : i \in 1..Len(shortcut_keys)} |->
        (CHOOSE i \in 1..Len(shortcut_keys) :
            /\ shortcut_keys[i] = key
            /\ \A j \in 1..(i - 1) : shortcut_keys[j] # key) - 1]

\* ShortcutChooser._init_shortcuts, lines 129-132: key -> 0-based index, a
\* later duplicate overwriting an earlier one
KeyToIndex(shortcut_keys) ==
    [key \in {shortcut_keys[i] : i \in 1..Len(shortcut_keys)} |->
        (CHOOSE i \in 1..Len(shortcut_keys) :
            /\ shortcut_keys[i] = key
            /\ \A j \in (i + 1)..Len(shortcut_keys) : shortcut_keys[j] # key) - 1]

\* shortcut_keys_list[:num_choices]
Take(seq, k) == SubSeq(seq, 1, Min2(Len(seq), k))

\* Faulty variant of has_duplicates: only neighbouring keys are compared
has_adjacent_duplicates(keys) ==
    \E i \in 1..(Len(keys) - 1) : keys[i] = keys[i + 1]

\* _init_shortcuts, line 122: len(valid_keys) != len(set(valid_keys))
has_duplicates(keys) ==
    Len(keys) # Cardinality({keys[i] : i \in 1..Len(keys)})

\* _init_shortcuts, lines 126-132: the attributes set from the keys in use
shortcuts_of(keys) ==
    [shortcut_keys |-> keys, shortcut_key_to_index |-> KeyToIndex(keys),
     exc |-> None, message |-> None]

\* _init_shortcuts, lines 110-123: raise ValueError(message); the attributes
\* keep the values of __init__, lines 61-62
shortcuts_error(message) ==
    [shortcut_keys |-> <<>>, shortcut_key_to_index |-> KeyToIndex(<<>>),
     exc |-> Some("ValueError"), message |-> Some(message)]

\* ShortcutChooser._init_shortcuts for len(choices) = num_choices: the two
\* attributes it sets and the exception it raises
_init_shortcuts(num_choices, shortcut_keys, strict_mode) ==
    IF IsNone(shortcut_keys)
    THEN shortcuts_of(AutoShortcutKeys(num_choices))
    ELSE IF strict_mode /\ Len(Val(shortcut_keys)) < num_choices
    THEN shortcuts_error("Too few shortcut keys")
    ELSE IF strict_mode /\ Len(Val(shortcut_keys)) > num_choices
    THEN shortcuts_error("Too many shortcut keys")
    ELSE IF strict_mode /\ has_duplicates(Take(Val(shortcut_keys), num_choices))
    THEN shortcuts_error("Duplicate shortcut keys found")
    ELSE shortcuts_of(Take(Val(shortcut_keys), num_choices))

\* Chooser.__init__ and the __init__ of MultiChooser, ShortcutChooser and
\* FilterChooser around it
__init__(kind, n, wrap, filtering, sel_index, sel_indices, min_sel, max_sel, height, overrides, hooks, no_confirm) ==
    LET choices == [i \in 1..n |-> Choice(i - 1, ChoiceSource(i - 1))]
        pre == ~IsNone(sel_index) /\ 0 <= Val(sel_index) /\ Val(sel_index) < n
        hi == IF pre THEN Val(sel_index) ELSE 0
    IN  [kind |-> kind,
         keybindings |-> _merge_keybindings(overrides),
         hooks |-> hooks,
         all_choices |->
            [i \in 1..n |->
                IF kind = "MultiChooser" /\ (i - 1) \in sel_indices
                THEN [choices[i] EXCEPT !.is_selected = TRUE]
                ELSE choices[i]],
         height |-> height,
         max_height |-> None,
         show_border |-> TRUE,
         footer |-> TRUE,
         header_rows |-> 0,
         enable_filtering |-> (kind = "Chooser" /\ filtering),
         filter_text |-> <<>>,
         filtered_choices |-> <<>>,
         highlighted_index |-> hi,
         highlighted_filtered_index |-> hi,
         highlighted_choice |-> IF pre THEN Some(hi + 1) ELSE None,
         wrap_navigation |-> wrap,
         min_selected |-> min_sel,
         max_selected |-> max_sel,
         _error_message |-> None,
         result |-> IF kind = "MultiChooser" THEN Some(NoneNone) ELSE None,
         n_on_change |-> 0,
         exc |-> None,
         shortcut_keys |->
            IF kind = "ShortcutChooser"
            THEN _init_shortcuts(n, None, FALSE).shortcut_keys ELSE <<>>,
         shortcut_key_to_index |->
            IF kind = "ShortcutChooser"
            THEN _init_shortcuts(n, None, FALSE).shortcut_key_to_index
            ELSE KeyToIndex(<<>>),
         no_confirm |-> (kind = "ShortcutChooser" /\ no_confirm),
         disable_filtering |-> FALSE,
         selected_filtered_index |-> None]

----------------------------------------------------------------------------
(* Chooser engine: extension points and utilities *)

HasHook(s, h) == h \in s.hooks

\* calling self.on_change(self) when the hook is set
fire_on_change(s) ==
    IF HasHook(s, "on_change") THEN [s EXCEPT !.n_on_change = @ + 1] ELSE s

AllRefs(s) == [i \in 1..Len(s.all_choices) |-> i]

\* Chooser._get_display_choices: the list it returns
_get_display_choices(s) ==
    IF s.enable_filtering \/ s.kind = "FilterChooser" THEN s.filtered_choices
    ELSE AllRefs(s)

\* Chooser._get_display_choices: what it does to the choices on the way
refresh_display_flags(s) ==
    IF s.enable_filtering
    THEN [s EXCEPT !.all_choices =
            [r \in 1..Len(s.all_choices) |->
                IF \E j \in 1..Len(s.filtered_choices) : s.filtered_choices[j] = r
                THEN [s.all_choices[r] EXCEPT
                        !.is_highlighted =
                            (s.all_choices[r].index = s.highlighted_index)]
                ELSE s.all_choices[r]]]
    ELSE s

\* Faulty variant of clear_highlight: the flags of the master list are left
\* as they are
clear_highlight_skipped(s) == s

\* _set_highlighted, lines 607-608
clear_highlight(s) ==
    [s EXCEPT !.all_choices =
        [r \in 1..Len(s.all_choices) |->
            [s.all_choices[r] EXCEPT !.is_highlighted = FALSE]]]

\* display_choices[i] of Python, negative i counting from the end
PyItem(list, i) == IF i >= 0 THEN At(list, i) ELSE At(list, Len(list) + i)

\* _set_highlighted, lines 610-617, on the list display_choices
point_highlight(s, display_choices, i) ==
    IF display_choices # <<>>
    THEN IF i >= Len(display_choices) \/ i < -Len(display_choices)
         THEN [s EXCEPT !.exc = Some("IndexError")]
         ELSE [s EXCEPT
                 !.highlighted_choice = Some(PyItem(display_choices, i)),
                 !.highlighted_index = s.all_choices[PyItem(display_choices, i)].index,
                 !.all_choices[PyItem(display_choices, i)].is_highlighted = TRUE]
    ELSE [s EXCEPT !.highlighted_choice = None, !.highlighted_index = 0]

\* _set_highlighted, lines 619-620
notify_change(s) == IF IsNone(s.exc) THEN fire_on_change(s) ELSE s

highlight_displayed(s) ==
    notify_change(
        point_highlight(refresh_display_flags(s), _get_display_choices(s),
                        s.highlighted_filtered_index))

\* the AttributeError of reading an attribute or calling a method that the
\* object does not have
missing_attribute(s) == [s EXCEPT !.exc = Some("AttributeError")]

\* The overrides of _get_display_choices that raise: ShortcutChooser's reads
\* self.choices (line 152) and FilterChooser's reads self.selected_index for
\* each filtered choice (line 85); no class of the package defines either
display_raises(s) ==
    \/ s.kind = "ShortcutChooser"
    \/ s.kind = "FilterChooser" /\ s.filtered_choices # <<>>

\* Chooser._set_highlighted; line 609 calls _get_display_choices
_set_highlighted(s) ==
    IF display_raises(s)
    THEN missing_attribute(clear_highlight(s))
    ELSE highlight_displayed(clear_highlight(s))

\* list.index(x), 0-based, for x in the list
list_index(list, x) ==
    CHOOSE i \in 0..(Len(list) - 1) :
        /\ At(list, i) = x
        /\ \A j \in 0..(i - 1) : At(list, j) # x

\* Faulty variant of apply_filter: the choices that remain are renumbered by
\* their position in the filtered list
apply_filter_renumbering(s) ==
    LET kept == IF s.filter_text = <<>> THEN AllRefs(s)
                ELSE SelectSeq(AllRefs(s),
                        LAMBDA r : str_in(lower(s.filter_text),
                                          lower(s.all_choices[r].value.plain)))
    IN  [s EXCEPT !.filtered_choices = kept,
                  !.all_choices =
                    [r \in 1..Len(s.all_choices) |->
                        IF \E j \in 1..Len(kept) : kept[j] = r
                        THEN [s.all_choices[r] EXCEPT
                                !.index = (CHOOSE j \in 1..Len(kept) : kept[j] = r) - 1]
                        ELSE s.all_choices[r]]]

\* _filter_choices, lines 498-507
apply_filter(s) ==
    IF s.filter_text = <<>>
    THEN [s EXCEPT !.filtered_choices = AllRefs(s)]
    ELSE [s EXCEPT !.filtered_choices =
            SelectSeq(AllRefs(s),
                LAMBDA r : str_in(lower(s.filter_text),
                                  lower(s.all_choices[r].value.plain)))]

\* [choice.index for choice in display_choices]
indices_of(s, display_choices) ==
    [j \in 1..Len(display_choices) |-> s.all_choices[display_choices[j]].index]

\* Faulty variant of resync_cursor: the cursor keeps its display position
resync_cursor_keeps_position(s, filtered_indices) == s

\* _filter_choices, lines 512-515
resync_cursor(s, filtered_indices) ==
    [s EXCEPT !.highlighted_filtered_index =
        IF \E j \in 1..Len(filtered_indices) :
                filtered_indices[j] = s.highlighted_index
        THEN list_index(filtered_indices, s.highlighted_index)
        ELSE 0]

\* _filter_choices, lines 510-515
adjust_to_selection(s) ==
    resync_cursor(refresh_display_flags(s),
                  indices_of(s, _get_display_choices(s)))

\* Chooser._filter_choices
_filter_choices(s) == _set_highlighted(adjust_to_selection(apply_filter(s)))

\* FilterChooser._filter_choices: line 104 calls self._adjust_to_selection,
\* which no class of the package defines
Filter_filter_choices(s) ==
    missing_attribute(
        IF s.disable_filtering
        THEN [s EXCEPT !.filtered_choices = AllRefs(s)]
        ELSE apply_filter(s))

\* FilterChooser._prepare_choices
Filter_prepare_choices(s) == Filter_filter_choices(s)

\* Chooser._prepare_choices and its override in FilterChooser
_prepare_choices(s) ==
    IF s.kind = "FilterChooser" THEN Filter_prepare_choices(s)
    ELSE IF s.enable_filtering THEN _filter_choices(s)
    ELSE _set_highlighted(s)

\* MultiChooser._selected_count
_selected_count(s) ==
    SeqSum([r \in 1..Len(s.all_choices) |->
                IF s.all_choices[r].is_selected THEN 1 ELSE 0])

ErrorMessage(template, min_sel, max_sel) ==
    [template |-> template, min |-> min_sel, max |-> max_sel]

\* Faulty variant of validate_count: with both bounds set only the lower
\* bound is tested
validate_count_min_only(count, min_sel, max_sel) ==
    IF ~IsNone(min_sel) /\ ~IsNone(max_sel)
    THEN IF count < Val(min_sel)
         THEN Some(ErrorMessage("range_selected_error", min_sel, max_sel))
         ELSE None
    ELSE IF ~IsNone(min_sel) /\ count < Val(min_sel)
    THEN Some(ErrorMessage("min_selected_error", min_sel, None))
    ELSE IF ~IsNone(max_sel) /\ count > Val(max_sel)
    THEN Some(ErrorMessage("max_selected_error", None, max_sel))
    ELSE None

\* _validate_selection, lines 117-133, for count = self._selected_count()
validate_count(count, min_sel, max_sel) ==
    IF ~IsNone(min_sel) /\ ~IsNone(max_sel)
    THEN IF count < Val(min_sel) \/ count > Val(max_sel)
         THEN Some(ErrorMessage("range_selected_error", min_sel, max_sel))
         ELSE None
    ELSE IF ~IsNone(min_sel) /\ count < Val(min_sel)
    THEN Some(ErrorMessage("min_selected_error", min_sel, None))
    ELSE IF ~IsNone(max_sel) /\ count > Val(max_sel)
    THEN Some(ErrorMessage("max_selected_error", None, max_sel))
    ELSE None

\* Faulty variant of Multi_validate_selection: a bound is tested for truth,
\* so a bound of 0 counts as not set
Multi_validate_selection_truthy_bounds(s) ==
    validate_count(_selected_count(s),
                   IF s.min_selected = Some(0) THEN None ELSE s.min_selected,
                   IF s.max_selected = Some(0) THEN None ELSE s.max_selected)

\* MultiChooser._validate_selection
Multi_validate_selection(s) ==
    validate_count(_selected_count(s), s.min_selected, s.max_selected)

\* Chooser._validate_selection and its MultiChooser override
_validate_selection(s) ==
    IF s.kind = "MultiChooser" THEN Multi_validate_selection(s) ELSE None

\* Result of an extension point: the control and the value returned
Ret(s, value) == [self |-> s, ret |-> value]

\* _handle_other_key, lines 220-233: the keys that edit the filter text
edits_filter(s, key) ==
    IF key \in binding(s, "backspace") THEN s.filter_text # <<>>
    ELSE key = "SPACE" \/ is_printable_char(key)

\* _handle_other_key, lines 222, 227, 231: the filter text after the key
edited_filter_text(s, key) ==
    IF key \in binding(s, "backspace")
    THEN SubSeq(s.filter_text, 1, Len(s.filter_text) - 1)
    ELSE IF key = "SPACE" THEN Append(s.filter_text, " ")
    ELSE Append(s.filter_text, key)

\* Chooser._handle_other_key
Chooser_handle_other_key(s, key) ==
    IF s.enable_filtering /\ edits_filter(s, key)
    THEN Ret(_filter_choices([s EXCEPT !.filter_text = edited_filter_text(s, key)]),
             FALSE)
    ELSE Ret(s, FALSE)

\* Faulty variant of toggle_highlighted: SPACE selects and never deselects
toggle_highlighted_select_only(s) ==
    IF ~IsNone(s.exc) THEN s
    ELSE IF IsNone(s.highlighted_choice)
    THEN [s EXCEPT !.exc = Some("AttributeError")]
    ELSE fire_on_change(
            [s EXCEPT !.all_choices[Val(s.highlighted_choice)].is_selected = TRUE])

\* MultiChooser._handle_other_key, lines 87-91, after its _set_highlighted
toggle_highlighted(s) ==
    IF ~IsNone(s.exc) THEN s
    ELSE IF IsNone(s.highlighted_choice)
    THEN [s EXCEPT !.exc = Some("AttributeError")]
    ELSE fire_on_change(
            [s EXCEPT !.all_choices[Val(s.highlighted_choice)].is_selected = ~@])

\* MultiChooser._handle_other_key
Multi_handle_other_key(s, key) ==
    IF key = "SPACE" THEN Ret(toggle_highlighted(_set_highlighted(s)), FALSE)
    ELSE Chooser_handle_other_key(s, key)

\* ShortcutChooser._handle_other_key: line 193 creates the attribute
\* selected_filtered_index, line 194 calls self._set_selected, which no class
\* of the package defines
Shortcut_handle_other_key(s, key) ==
    IF key \in DOMAIN s.shortcut_key_to_index
    THEN Ret(missing_attribute(
                [s EXCEPT !.selected_filtered_index =
                            Some(s.shortcut_key_to_index[key])]),
             FALSE)
    ELSE Ret(s, FALSE)

\* FilterChooser._handle_other_key
Filter_handle_other_key(s, key) ==
    IF ~s.disable_filtering /\ edits_filter(s, key)
    THEN Ret(Filter_filter_choices(
                [s EXCEPT !.filter_text = edited_filter_text(s, key)]),
             FALSE)
    ELSE Ret(s, FALSE)

_handle_other_key(s, key) ==
    IF s.kind = "MultiChooser" THEN Multi_handle_other_key(s, key)
    ELSE IF s.kind = "ShortcutChooser" THEN Shortcut_handle_other_key(s, key)
    ELSE IF s.kind = "FilterChooser" THEN Filter_handle_other_key(s, key)
    ELSE Chooser_handle_other_key(s, key)

SCROLL_TOP_OFFSET == 3
MIN_VISIBLE_WHEN_SCROLLING == SCROLL_TOP_OFFSET + 2
ConsoleHeight == 24      \* console.height of the terminal

\* _visible_count, lines 640-645
absolute_height(s) ==
    IF ~IsNone(s.height) THEN Val(s.height)
    ELSE IF ~IsNone(s.max_height) THEN Val(s.max_height)
    ELSE ConsoleHeight

\* _visible_count, lines 648-659
rows_for_items(s, table_rows_so_far) ==
    absolute_height(s) - (IF s.show_border THEN 2 ELSE 0) - table_rows_so_far
        - (IF s.footer THEN 1 ELSE 0)

\* Faulty variant of floor_visible: no minimum when scrolling is needed
floor_visible_unfloored(total_items, available_rows) ==
    Max2(1, available_rows)

\* _visible_count, lines 662-665
floor_visible(total_items, available_rows) ==
    Max2(1, IF total_items > available_rows
            THEN Max2(available_rows, MIN_VISIBLE_WHEN_SCROLLING)
            ELSE available_rows)

\* Chooser._visible_count
_visible_count(s, display_choices, table_rows_so_far) ==
    floor_visible(Len(display_choices), rows_for_items(s, table_rows_so_far))

\* Chooser._render: what rendering a frame does to the control
_render(s) == refresh_display_flags(s)

----------------------------------------------------------------------------
(* Chooser._choose: the handling of one key *)

\* Faulty variant of page_step: a page is the whole visible count
page_step_whole_window(s, display_choices) ==
    Max2(1, _visible_count(s, display_choices, 0))

\* _choose, lines 732 and 739
page_step(s, display_choices) ==
    Max2(1, _visible_count(s, display_choices, 0) - 1)

\* the cursor moved to display position i
goto(s, i) == Ret([s EXCEPT !.highlighted_filtered_index = i], "continue")

\* _choose, lines 751-753
other_key(h) ==
    IF ~IsNone(h.self.exc) THEN Ret(h.self, "raise")
    ELSE IF h.ret THEN Ret(h.self, "confirm")
    ELSE Ret(h.self, "continue")

\* Faulty variant of up_target: the wrap does not test that the display list
\* has entries
up_target_wrap_empty(n, hfi, wrap) ==
    IF hfi > 0 THEN hfi - 1
    ELSE IF wrap THEN n - 1
    ELSE hfi

\* _choose, lines 713-716: where up takes the cursor
up_target(n, hfi, wrap) ==
    IF hfi > 0 THEN hfi - 1
    ELSE IF wrap /\ n > 0 THEN n - 1
    ELSE hfi

\* Faulty variant of down_target: the wrap tests the wrong end of the list
down_target_wrap_early(n, hfi, wrap) ==
    IF hfi < n - 2 THEN hfi + 1
    ELSE IF wrap /\ n > 0 THEN 0
    ELSE hfi

\* _choose, lines 719-722: where down takes the cursor
down_target(n, hfi, wrap) ==
    IF hfi < n - 1 THEN hfi + 1
    ELSE IF wrap /\ n > 0 THEN 0
    ELSE hfi

\* Faulty variant of leave_or_other: the cancel branch is missing, a cancel
\* key is handed to _handle_other_key
leave_or_other_no_cancel(s, key) ==
    IF key \in binding(s, "confirm") THEN Ret(s, "confirm")
    ELSE other_key(_handle_other_key(s, key))

\* _choose, lines 745-753: a key that is no navigation key
leave_or_other(s, key) ==
    IF key \in binding(s, "confirm") THEN Ret(s, "confirm")
    ELSE IF key \in binding(s, "cancel") THEN Ret(s, "cancel")
    ELSE other_key(_handle_other_key(s, key))

\* _choose, lines 712-753: the key against the keybinding table, for the
\* display list of n entries and the cursor at hfi.  ret is "continue" (go
\* on in the loop body), "confirm" (return True), "cancel" (return False)
\* or "raise".
dispatch(s, key, n, hfi, step) ==
    IF key \in binding(s, "up") THEN goto(s, up_target(n, hfi, s.wrap_navigation))
    ELSE IF key \in binding(s, "down")
    THEN goto(s, down_target(n, hfi, s.wrap_navigation))
    ELSE IF key \in binding(s, "home") THEN goto(s, 0)
    ELSE IF key \in binding(s, "end")
    THEN IF n > 0 THEN goto(s, n - 1) ELSE goto(s, hfi)
    ELSE IF key \in binding(s, "page_up") THEN goto(s, Max2(0, hfi - step))
    ELSE IF key \in binding(s, "page_down")
    THEN IF n > 0 THEN goto(s, Min2(n - 1, hfi + step)) ELSE goto(s, hfi)
    ELSE leave_or_other(s, key)

\* _choose, lines 757-758, after _set_highlighted
rerender(s) == IF ~IsNone(s.exc) THEN Ret(s, "raise") ELSE Ret(_render(s), "continue")

\* _choose, lines 755-758: the end of the loop body
end_of_body(handled) ==
    IF handled.ret = "continue" THEN rerender(_set_highlighted(handled.self))
    ELSE handled

\* _choose, lines 710-758 on the display list display_choices
choose_on(s, key, display_choices) ==
    end_of_body(
        dispatch(s, key, Len(display_choices), s.highlighted_filtered_index,
                 page_step(s, display_choices)))

\* _choose, lines 710-758: the handling of a key that reaches the dispatch
_choose_key(s, key) ==
    IF display_raises(s) THEN Ret(missing_attribute(s), "raise")
    ELSE choose_on(refresh_display_flags(s), key, _get_display_choices(s))

\* Tokens an on_key hook may hand back in place of the key it was given
OnKeyRemaps == {"DOWN_ARROW", "ENTER", "ESC"}

\* What self.on_key(key, self) may return
OnKeyResults(key) == {None} \cup {Some(t) : t \in OnKeyRemaps \cup {key}}

\* Faulty variant of dispatched_key: the token on_key returned is dropped
dispatched_key_as_read(s, key, intercepted) == key

\* _choose, line 708: the key the dispatch sees
dispatched_key(s, key, intercepted) ==
    IF HasHook(s, "on_key") THEN Val(intercepted) ELSE key

\* Faulty variant of _choose_body: a key dismisses the overlay on the screen
\* only, the message stays set
_choose_body_overlay_kept(s, key, intercepted) ==
    IF key = EMPTY_KEY THEN Ret(s, "continue")
    ELSE IF ~IsNone(s._error_message)
    THEN Ret(_render(s), "continue")
    ELSE IF HasHook(s, "on_key") /\ IsNone(intercepted)
    THEN Ret(_render(s), "continue")
    ELSE _choose_key(s, dispatched_key(s, key, intercepted))

\* Faulty variant of _choose_body: the empty key is not filtered out, so it
\* goes on like any other key
_choose_body_empty_key_dispatched(s, key, intercepted) ==
    IF ~IsNone(s._error_message)
    THEN Ret(_render([s EXCEPT !._error_message = None]), "continue")
    ELSE IF HasHook(s, "on_key") /\ IsNone(intercepted)
    THEN Ret(_render(s), "continue")
    ELSE _choose_key(s, dispatched_key(s, key, intercepted))

\* Faulty variant of _choose_body: the overlay is cleared but the `continue`
\* is missing, so the key goes on to the dispatch
_choose_body_no_continue(s, key, intercepted) ==
    IF key = EMPTY_KEY THEN Ret(s, "continue")
    ELSE IF ~IsNone(s._error_message)
    THEN _choose_key([s EXCEPT !._error_message = None], key)
    ELSE IF HasHook(s, "on_key") /\ IsNone(intercepted)
    THEN Ret(_render(s), "continue")
    ELSE _choose_key(s, dispatched_key(s, key, intercepted))

\* _choose, lines 689-758: the loop body once read_key has returned `key`;
\* `intercepted` is what on_key returns if it is called
_choose_body(s, key, intercepted) ==
    IF key = EMPTY_KEY THEN Ret(s, "continue")
    ELSE IF ~IsNone(s._error_message)
    THEN Ret(_render([s EXCEPT !._error_message = None]), "continue")
    ELSE IF HasHook(s, "on_key") /\ IsNone(intercepted)
    THEN Ret(_render(s), "continue")
    ELSE _choose_key(s, dispatched_key(s, key, intercepted))

\* whether the loop body calls on_key for this key
calls_on_key(s, key) ==
    key # EMPTY_KEY /\ IsNone(s._error_message) /\ HasHook(s, "on_key")

----------------------------------------------------------------------------
(* run(): finalisation of the Result *)

\* Faulty variant of result_of: the position of the choice in the list
\* (counted from 1) is returned in place of its index field
result_by_position(s, choice) ==
    IF ~IsNone(s.exc) THEN s
    ELSE IF IsNone(choice) THEN [s EXCEPT !.result = Some(NoneNone)]
    ELSE [s EXCEPT !.result =
            Some([value |-> Some(text_str(s.all_choices[Val(choice)].value)),
                  index |-> Some(Val(choice))])]

\* run, lines 794-798: the Result for highlighted_choice
result_of(s, choice) ==
    IF ~IsNone(s.exc) THEN s
    ELSE IF IsNone(choice) THEN [s EXCEPT !.result = Some(NoneNone)]
    ELSE [s EXCEPT !.result =
            Some([value |-> Some(text_str(s.all_choices[Val(choice)].value)),
                  index |-> Some(s.all_choices[Val(choice)].index)])]

highlighted_result(s) == result_of(s, s.highlighted_choice)

\* Chooser.run, lines 793-798
Chooser_finalize(s) == highlighted_result(_set_highlighted(s))

\* Faulty variant of collect: the selected choices are listed last first
collect_last_first(s, picked) ==
    IF picked = <<>> THEN [s EXCEPT !.result = Some(NoneNone)]
    ELSE [s EXCEPT !.result =
            Some([value |->
                    Some([j \in 1..Len(picked) |->
                            s.all_choices[picked[Len(picked) + 1 - j]].value]),
                  index |->
                    Some([j \in 1..Len(picked) |->
                            s.all_choices[picked[Len(picked) + 1 - j]].index])])]

\* MultiChooser.run, lines 165-176, for the selected choices `picked`
collect(s, picked) ==
    IF picked = <<>> THEN [s EXCEPT !.result = Some(NoneNone)]
    ELSE [s EXCEPT !.result =
            Some([value |->
                    Some([j \in 1..Len(picked) |-> s.all_choices[picked[j]].value]),
                  index |->
                    Some([j \in 1..Len(picked) |-> s.all_choices[picked[j]].index])])]

\* MultiChooser.run, lines 165-176
Multi_finalize(s) ==
    collect(s, SelectSeq(AllRefs(s), LAMBDA r : s.all_choices[r].is_selected))

finalize(s) ==
    IF s.kind = "MultiChooser" THEN Multi_finalize(s) ELSE Chooser_finalize(s)

\* Faulty variant of settle_valid: the answer of on_confirm is ignored
settle_valid_ignoring_answer(s, accept) == finalize(s)

\* run, lines 786-799: a confirm that passed validation, with on_confirm
\* answering `accept`
settle_valid(s, accept) ==
    IF accept THEN finalize(s) ELSE _render(_prepare_choices(s))

----------------------------------------------------------------------------
(* State machine of run() *)

Opt(S) == {None} \cup {Some(x) : x \in S}

Kinds == {"Chooser", "MultiChooser", "ShortcutChooser", "FilterChooser"}
HookNames == {"before_run", "after_run", "on_change", "on_key", "on_confirm",
              "should_exit"}
\* Hook configurations: before_run, after_run and on_change are observers and
\* are always installed; the three hooks that steer the loop are optional.
HookSets == {{"before_run", "after_run", "on_change"} \cup h :
                h \in SUBSET {"on_key", "on_confirm", "should_exit"}}
HeightOptions == {Some(7)}
NoOverrides == <<>>

\* The ghost record of one loop iteration of _choose
IterStart ==
    [polled |-> FALSE,          \* should_exit was called
     exit_now |-> FALSE,        \* ... and returned True
     read |-> FALSE,            \* read_key was called
     key |-> None,              \* the key read_key returned
     overlay |-> FALSE,         \* an error overlay was displayed at the read
     on_key |-> 0,              \* calls of on_key
     intercepted |-> None,      \* what on_key returned
     validate |-> 0,            \* calls of _validate_selection
     on_confirm |-> 0,          \* calls of on_confirm
     accepted |-> FALSE,        \* on_confirm was absent or returned True
     prepare |-> 0,             \* calls of _prepare_choices
     on_change |-> 0]           \* calls of on_change

LifeStart ==
    [before_run |-> 0,          \* calls of before_run
     after_run |-> 0,           \* calls of after_run
     prepared |-> FALSE,        \* _prepare_choices has run
     any_read |-> FALSE,        \* read_key has been called
     downs |-> Some(0),         \* Some(k): the keys read so far are k presses
                                \*   of down (k below the list length), then
                                \*   confirm keys only
     rejected |-> FALSE,        \* a confirm has failed validation
     cause |-> "",              \* why the loop ended
     seen |-> None,             \* self.result when after_run was called
     returned |-> None,         \* the value run() returned
     overrides |-> NoOverrides, \* the keybindings argument of the constructor
     asked |-> None,            \* Some of the selected_index and selected_value
                                \*   arguments of the constructor, if followed
     cancels |-> 0]             \* the latest keys read are so many cancel keys
                                \*   that on_key, if called, handed on as read

ReaderStart == [entered |-> 0, exited |-> 0, held |-> FALSE, misuse |-> FALSE]

\* the selected_indices arguments that are tried with n choices: none, or
\* the last choice
PreSelections(n) == {{}} \cup {{n - 1} : i \in 1..(IF n > 0 THEN 1 ELSE 0)}

Init ==
    /\ \E kind \in Kinds, n \in 0..MaxChoices, wrap \in BOOLEAN,
          filtering \in BOOLEAN, hooks \in HookSets, height \in HeightOptions,
          min_sel \in Opt(0..MaxBound), max_sel \in Opt(0..MaxBound),
          no_confirm \in BOOLEAN, sel_indices \in SUBSET (0..(MaxChoices - 1)) :
          /\ kind # "Chooser" => ~filtering
          /\ sel_indices \in PreSelections(n)
          /\ kind # "MultiChooser" => sel_indices = {}
          /\ kind # "MultiChooser" => IsNone(min_sel) /\ IsNone(max_sel)
          /\ kind # "ShortcutChooser" => ~no_confirm
          /\ kind = "ShortcutChooser" => "on_confirm" \notin hooks
          /\ self = __init__(kind, n, wrap, filtering, None, sel_indices, min_sel, max_sel,
                             height, NoOverrides, hooks, no_confirm)
    /\ pc = "idle"
    /\ confirmed = FALSE
    /\ reader = ReaderStart
    /\ iter = IterStart
    /\ life = LifeStart

\* n_on_change counts within one iteration
Settled(s) == [s EXCEPT !.n_on_change = 0]

\* The iteration record once the loop is left: the key is forgotten
Closed(it) ==
    [it EXCEPT !.key = None, !.intercepted = None, !.overlay = FALSE,
               !.on_change = 0]

\* ghost: life.downs after read_key has returned `key`
count_downs(s, downs, key) ==
    IF IsNone(downs) THEN None
    ELSE IF key \in binding(s, "confirm") THEN downs
    ELSE IF key \in binding(s, "down") /\ Val(downs) + 1 < Len(s.all_choices)
    THEN Some(Val(downs) + 1)
    ELSE None

\* ghost: life.cancels after read_key has returned `key`; the empty key is no
\* key of the stream
count_cancels(s, cancels, key, intercepted) ==
    IF key = EMPTY_KEY THEN cancels
    ELSE IF key \in binding(s, "cancel")
            /\ (calls_on_key(s, key) => intercepted = Some(key))
    THEN Min2(cancels + 1, MaxCancels)
    ELSE 0

\* run, lines 767-768
BeforeRun ==
    /\ pc = "idle"
    /\ life' = [life EXCEPT !.before_run =
                    IF HasHook(self, "before_run") THEN @ + 1 ELSE @]
    /\ pc' = "prepare"
    /\ UNCHANGED <<self, confirmed, reader, iter>>

\* run, line 770
PrepareChoices ==
    /\ pc = "prepare"
    /\ self' = _prepare_choices(self)
    /\ life' = [life EXCEPT !.prepared = TRUE]
    /\ pc' = IF IsNone(self'.exc) THEN "acquire" ELSE "aborted"
    /\ UNCHANGED <<confirmed, reader, iter>>

\* run, line 771 (with ... as key_reader) and the entry into _choose,
\* lines 676-681 (the first frame)
AcquireReader ==
    /\ pc = "acquire"
    /\ reader' = [reader EXCEPT !.entered = @ + 1, !.held = TRUE]
    /\ self' = _render(self)
    /\ pc' = "poll"
    /\ UNCHANGED <<confirmed, iter, life>>

\* Faulty variant of Poll: should_exit is consulted only until the first key
\* has been read
Poll_until_first_read ==
    /\ pc = "poll"
    /\ self' = Settled(self)
    /\ IF HasHook(self, "should_exit") /\ ~life.any_read
       THEN \E should_exit \in BOOLEAN :
              /\ iter' = [IterStart EXCEPT !.polled = TRUE, !.exit_now = should_exit]
              /\ IF should_exit
                 THEN /\ confirmed' = FALSE
                      /\ pc' = "chosen"
                 ELSE /\ pc' = "read"
                      /\ UNCHANGED confirmed
       ELSE /\ iter' = IterStart
            /\ pc' = "read"
            /\ UNCHANGED confirmed
    /\ UNCHANGED <<reader, life>>

\* _choose, lines 682-685: the head of a loop iteration
Poll ==
    /\ pc = "poll"
    /\ self' = Settled(self)
    /\ IF HasHook(self, "should_exit")
       THEN \E should_exit \in BOOLEAN :
              /\ iter' = [IterStart EXCEPT !.polled = TRUE, !.exit_now = should_exit]
              /\ IF should_exit
                 THEN /\ confirmed' = FALSE
                      /\ pc' = "chosen"
                 ELSE /\ pc' = "read"
                      /\ UNCHANGED confirmed
       ELSE /\ iter' = IterStart
            /\ pc' = "read"
            /\ UNCHANGED confirmed
    /\ UNCHANGED <<reader, life>>

\* should_exit raises
PollRaises ==
    /\ pc = "poll"
    /\ HasHook(self, "should_exit")
    /\ iter' = [IterStart EXCEPT !.polled = TRUE]
    /\ pc' = "unwind"
    /\ UNCHANGED <<self, confirmed, reader, life>>

\* _choose, lines 687-758: read one key and handle it
ReadKey ==
    /\ pc = "read"
    /\ \E key \in Keys :
         \E intercepted \in
                (IF calls_on_key(self, key) THEN OnKeyResults(key) ELSE {None}) :
            \E out \in {_choose_body(self, key, intercepted)} :
                /\ Len(out.self.filter_text) <= MaxFilterLen
                /\ self' = out.self
                /\ iter' = [iter EXCEPT
                              !.read = TRUE,
                              !.key = Some(key),
                              !.overlay = ~IsNone(self._error_message),
                              !.on_key = IF calls_on_key(self, key) THEN @ + 1 ELSE @,
                              !.intercepted = intercepted,
                              !.on_change = out.self.n_on_change]
                /\ pc' = CASE out.ret = "continue" -> "poll"
                           [] out.ret = "raise" -> "unwind"
                           [] OTHER -> "chosen"
                /\ confirmed' = IF out.ret = "continue" \/ out.ret = "raise"
                                THEN confirmed ELSE (out.ret = "confirm")
                /\ life' = [life EXCEPT
                              !.any_read = TRUE,
                              !.downs = count_downs(self, @, key),
                              !.cancels = count_cancels(self, @, key, intercepted)]
    /\ reader' = [reader EXCEPT !.misuse = @ \/ ~reader.held]

\* read_key raises
ReadKeyRaises ==
    /\ pc = "read"
    /\ iter' = [iter EXCEPT !.read = TRUE]
    /\ reader' = [reader EXCEPT !.misuse = @ \/ ~reader.held]
    /\ life' = [life EXCEPT !.any_read = TRUE]
    /\ pc' = "unwind"
    /\ UNCHANGED <<self, confirmed>>

\* on_key raises for the key just read
OnKeyRaises ==
    /\ pc = "read"
    /\ \E key \in Keys :
         /\ calls_on_key(self, key)
         /\ iter' = [iter EXCEPT !.read = TRUE, !.on_key = @ + 1]
    /\ reader' = [reader EXCEPT !.misuse = @ \/ ~reader.held]
    /\ life' = [life EXCEPT !.any_read = TRUE]
    /\ pc' = "unwind"
    /\ UNCHANGED <<self, confirmed>>

\* ghost: the iteration record after a confirm that passed validation
settle_record(it, s, s1, accept) ==
    IF accept
    THEN Closed([it EXCEPT
            !.validate = @ + 1,
            !.on_confirm = IF HasHook(s, "on_confirm") THEN @ + 1 ELSE @,
            !.accepted = TRUE])
    ELSE [it EXCEPT
            !.validate = @ + 1,
            !.on_confirm = @ + 1,
            !.prepare = @ + 1,
            !.on_change = s1.n_on_change]

\* Faulty variant of Settle: on_confirm is consulted before the validation
\* error is looked at
Settle_hook_before_validation ==
    /\ pc = "chosen"
    /\ IF ~confirmed
       THEN /\ self' = Settled([self EXCEPT !.result = Some(NoneNone)])
            /\ pc' = "release"
            /\ life' = [life EXCEPT !.cause =
                            IF iter.exit_now THEN "should_exit" ELSE "cancel"]
            /\ iter' = Closed(iter)
       ELSE \E error \in {_validate_selection(self)} :
                \E accept \in
                    (IF HasHook(self, "on_confirm") THEN BOOLEAN ELSE {TRUE}) :
                    IF ~IsNone(error)
                    THEN /\ self' = _render([self EXCEPT !._error_message = error])
                         /\ pc' = "poll"
                         /\ iter' = [iter EXCEPT
                                !.validate = @ + 1,
                                !.on_confirm =
                                    IF HasHook(self, "on_confirm") THEN @ + 1 ELSE @]
                         /\ life' = [life EXCEPT !.rejected = TRUE]
                    ELSE \E s1 \in {settle_valid(self, accept)} :
                            /\ self' = IF accept THEN Settled(s1) ELSE s1
                            /\ iter' = settle_record(iter, self, s1, accept)
                            /\ pc' = IF accept THEN "release" ELSE "poll"
                            /\ life' = [life EXCEPT !.cause =
                                            IF accept THEN "confirm" ELSE @]
    /\ UNCHANGED <<confirmed, reader>>

\* run, lines 773-799: what run() does when _choose has returned
Settle ==
    /\ pc = "chosen"
    /\ IF ~confirmed
       THEN /\ self' = Settled([self EXCEPT !.result = Some(NoneNone)])
            /\ pc' = "release"
            /\ life' = [life EXCEPT !.cause =
                            IF iter.exit_now THEN "should_exit" ELSE "cancel"]
            /\ iter' = Closed(iter)
       ELSE \E error \in {_validate_selection(self)} :
                IF ~IsNone(error)
                THEN /\ self' = _render([self EXCEPT !._error_message = error])
                     /\ pc' = "poll"
                     /\ iter' = [iter EXCEPT !.validate = @ + 1]
                     /\ life' = [life EXCEPT !.rejected = TRUE]
                ELSE \E accept \in
                        (IF HasHook(self, "on_confirm") THEN BOOLEAN ELSE {TRUE}) :
                        \E s1 \in {settle_valid(self, accept)} :
                            /\ self' = IF accept THEN Settled(s1) ELSE s1
                            /\ iter' = settle_record(iter, self, s1, accept)
                            /\ pc' = IF accept THEN "release" ELSE "poll"
                            /\ life' = [life EXCEPT !.cause =
                                            IF accept THEN "confirm" ELSE @]
    /\ UNCHANGED <<confirmed, reader>>

\* on_confirm raises
OnConfirmRaises ==
    /\ pc = "chosen"
    /\ confirmed
    /\ IsNone(_validate_selection(self))
    /\ HasHook(self, "on_confirm")
    /\ iter' = [iter EXCEPT !.validate = @ + 1, !.on_confirm = @ + 1]
    /\ pc' = "unwind"
    /\ UNCHANGED <<self, confirmed, reader, life>>

\* Faulty variant of ReleaseReader: the reader is released after the loop,
\* with no `with` block or finally clause around it
ReleaseReader_no_finally ==
    /\ pc \in {"release", "unwind"}
    /\ reader' = IF pc = "release"
                 THEN [reader EXCEPT !.exited = @ + 1, !.held = FALSE]
                 ELSE reader
    /\ pc' = IF pc = "release" THEN "after_run" ELSE "raised"
    /\ life' = [life EXCEPT !.cause = IF pc = "unwind" THEN "exception" ELSE @]
    /\ UNCHANGED <<self, confirmed, iter>>

\* run, line 771: the with-statement leaves its block, by break or by an
\* exception going through it
ReleaseReader ==
    /\ pc \in {"release", "unwind"}
    /\ reader' = [reader EXCEPT !.exited = @ + 1, !.held = FALSE]
    /\ pc' = IF pc = "release" THEN "after_run" ELSE "raised"
    /\ life' = [life EXCEPT !.cause = IF pc = "unwind" THEN "exception" ELSE @]
    /\ UNCHANGED <<self, confirmed, iter>>

\* Faulty variant of AfterRun: after_run is called only for a non-empty Result
AfterRun_on_success_only ==
    /\ pc = "after_run"
    /\ life' = [life EXCEPT
                  !.after_run = IF HasHook(self, "after_run")
                                   /\ self.result # Some(NoneNone)
                                THEN @ + 1 ELSE @,
                  !.seen = IF HasHook(self, "after_run")
                              /\ self.result # Some(NoneNone)
                           THEN self.result ELSE @,
                  !.returned = self.result]
    /\ pc' = "done"
    /\ UNCHANGED <<self, confirmed, reader, iter>>

\* run, lines 801-804
AfterRun ==
    /\ pc = "after_run"
    /\ life' = [life EXCEPT
                  !.after_run = IF HasHook(self, "after_run") THEN @ + 1 ELSE @,
                  !.seen = IF HasHook(self, "after_run") THEN self.result ELSE @,
                  !.returned = self.result]
    /\ pc' = "done"
    /\ UNCHANGED <<self, confirmed, reader, iter>>

Next ==
    \/ BeforeRun
    \/ PrepareChoices
    \/ AcquireReader
    \/ Poll
    \/ PollRaises
    \/ ReadKey
    \/ ReadKeyRaises
    \/ OnKeyRaises
    \/ Settle
    \/ OnConfirmRaises
    \/ ReleaseReader
    \/ AfterRun

Spec == Init /\ [][Next]_vars

----------------------------------------------------------------------------
(* Properties *)

Steering == {"on_key", "on_confirm", "should_exit"}

\* a Chooser over a static list, with no hook that steers the loop
PlainChooser(s) ==
    s.kind = "Chooser" /\ ~s.enable_filtering /\ s.hooks \cap Steering = {}

\* run() has left its loop normally
Left == pc \in {"release", "after_run", "done"}

Cursor(s) == s.highlighted_filtered_index
Display(s) == _get_display_choices(s)
UnderCursor(s) == s.all_choices[At(Display(s), Cursor(s))]
SelectedSet(s) == {r \in 1..Len(s.all_choices) : s.all_choices[r].is_selected}
Pair(value, index) == Some([value |-> Some(value), index |-> Some(index)])

\* the token the dispatch of the iteration saw, None if it saw none
DispatchedTok(it) == IF it.on_key > 0 THEN it.intercepted ELSE it.key

\* the iteration read a key that reached the keybinding dispatch
Dispatches(it) ==
    /\ ~IsNone(it.key)
    /\ Val(it.key) # EMPTY_KEY
    /\ ~it.overlay
    /\ ~IsNone(DispatchedTok(it))

\* on_key is absent or handed the key back unchanged
PassThrough(it) == it.on_key = 0 \/ it.intercepted = it.key

\* C1: for a Chooser over a static list of N >= 1 choices with no hooks, an
\* accepted confirm makes run() return (value, index) where index is the
\* master-list index of the display-list entry under the cursor and value is
\* the plain text of that choice; after k presses of down from the top
\* (k < N) and a confirm, index is k.
C1_ConfirmReturnsCursorEntry ==
    (PlainChooser(self) /\ Len(self.all_choices) >= 1 /\ life.cause = "confirm") =>
        /\ Left
        /\ self.result = Pair(UnderCursor(self).value.plain, UnderCursor(self).index)
        /\ Val(self.result).index = Some(Cursor(self))
        /\ ~IsNone(life.downs) => Val(self.result).index = life.downs
        /\ pc = "done" => life.returned = self.result

\* C1 witness: down, down, confirm on three choices returns index 2
C1_Witness ==
    /\ pc = "done"
    /\ PlainChooser(self)
    /\ life.cause = "confirm"
    /\ life.downs = Some(2)
    /\ life.returned = Pair(<<"A">>, 2)

\* the iteration read a cancel key with no overlay displayed, and on_key did
\* not intercept it
CancelRead ==
    /\ iter.read
    /\ ~IsNone(iter.key)
    /\ Val(iter.key) \in binding(self, "cancel")
    /\ ~iter.overlay
    /\ PassThrough(iter)

\* C2: with no overlay displayed and no interception by on_key, a cancel key
\* ends run() with (None, None) from any reachable state; neither
\* _validate_selection nor on_confirm is invoked on that path.
C2_CancelEndsRun ==
    /\ [](CancelRead =>
            /\ pc = "chosen"
            /\ ~confirmed
            /\ ~iter.exit_now
            /\ iter.validate = 0 /\ iter.on_confirm = 0)
    /\ [][CancelRead =>
            /\ pc' = "release"
            /\ self'.result = Some(NoneNone)
            /\ life'.cause = "cancel"
            /\ iter'.validate = 0 /\ iter'.on_confirm = 0]_vars
    /\ [](life.cause = "cancel" =>
            /\ Left
            /\ self.result = Some(NoneNone)
            /\ iter.validate = 0 /\ iter.on_confirm = 0
            /\ pc = "done" => life.returned = Some(NoneNone))
    /\ [][life.cause = "cancel" =>
            /\ pc' \in {"after_run", "done"}
            /\ self'.result = self.result]_vars

\* C2 witness: a run cancelled after filter text was typed and the cursor moved
C2_Witness ==
    /\ pc = "done"
    /\ life.cause = "cancel"
    /\ self.filter_text # <<>>
    /\ Cursor(self) > 0
    /\ life.returned = Some(NoneNone)

\* C3: on a display list of N items, up at 0 goes to N-1 and down at N-1 goes
\* to 0 when wrap_navigation is set, both stay when it is not; away from the
\* boundary up and down move the cursor by exactly one.
C3_UpDownWrap ==
    [][(pc = "read" /\ Dispatches(iter') /\ Len(Display(self)) >= 1) =>
        LET t == Val(DispatchedTok(iter'))
            n == Len(Display(self))
            h == Cursor(self)
        IN  /\ t \in binding(self, "up") =>
                Cursor(self') =
                    IF h > 0 THEN h - 1
                    ELSE IF self.wrap_navigation THEN n - 1 ELSE h
            /\ t \in binding(self, "down") =>
                Cursor(self') =
                    IF h < n - 1 THEN h + 1
                    ELSE IF self.wrap_navigation THEN 0 ELSE h]_vars

\* C3 witness: up pressed at the top of three entries has wrapped to the last
C3_Witness ==
    /\ pc = "poll"
    /\ Dispatches(iter)
    /\ Val(DispatchedTok(iter)) \in binding(self, "up")
    /\ self.wrap_navigation
    /\ Len(Display(self)) = 3
    /\ Cursor(self) = 2

\* the number of selected choices is outside min_selected .. max_selected
Violates(s) ==
    \/ ~IsNone(s.min_selected) /\ Cardinality(SelectedSet(s)) < Val(s.min_selected)
    \/ ~IsNone(s.max_selected) /\ Cardinality(SelectedSet(s)) > Val(s.max_selected)

\* the cursor, the selection and the filter text of s2 are those of s
SameView(s, s2) ==
    /\ Cursor(s2) = Cursor(s)
    /\ s2.highlighted_index = s.highlighted_index
    /\ SelectedSet(s2) = SelectedSet(s)
    /\ s2.filter_text = s.filter_text

\* C4: in MultiChooser a confirm while the number of selected choices violates
\* min_selected or max_selected never ends run() and never produces a
\* non-empty Result: the control stays in the loop with an error overlay, and
\* after such a rejection a cancel key still ends the run with (None, None).
C4_ValidationGate ==
    /\ [][(pc = "chosen" /\ confirmed /\ self.kind = "MultiChooser"
                /\ Violates(self)) =>
            /\ pc' = "poll"
            /\ ~IsNone(self'._error_message)
            /\ self'.result = Some(NoneNone)
            /\ life'.cause = ""
            /\ life'.rejected
            /\ SelectedSet(self') = SelectedSet(self)]_vars
    /\ []((self.kind = "MultiChooser" /\ self.result # Some(NoneNone)) =>
            /\ ~Violates(self)
            /\ life.cause = "confirm")
    /\ []((self.kind = "MultiChooser" /\ life.cause = "confirm") => ~Violates(self))
    /\ []((life.rejected /\ CancelRead) => (pc = "chosen" /\ ~confirmed))
    /\ [][(life.rejected /\ CancelRead) =>
            /\ pc' = "release"
            /\ self'.result = Some(NoneNone)
            /\ life'.cause = "cancel"]_vars
    /\ []((life.rejected /\ life.cause = "cancel" /\ pc = "done") =>
            life.returned = Some(NoneNone))

\* C4 witness: a confirm was rejected for a missing selection, and the run
\* was then ended by a cancel key
C4_Witness ==
    /\ pc = "done"
    /\ self.kind = "MultiChooser"
    /\ self.min_selected = Some(1)
    /\ life.rejected
    /\ life.cause = "cancel"
    /\ life.returned = Some(NoneNone)

\* C5: while an error overlay is displayed, the next non-empty key only
\* clears the overlay: it is not dispatched, on_key is not called for it, and
\* the cursor, every is_selected flag and the filter text are what they were
\* before the failed confirm.
C5_OverlayDismissal ==
    /\ [][(pc = "read" /\ ~IsNone(self._error_message) /\ ~IsNone(iter'.key)
                /\ Val(iter'.key) # EMPTY_KEY) =>
            /\ pc' = "poll"
            /\ IsNone(self'._error_message)
            /\ iter'.on_key = 0
            /\ iter'.on_change = 0
            /\ SameView(self, self')
            /\ confirmed' = confirmed
            /\ self'.result = self.result
            /\ life'.cause = life.cause]_vars
    /\ [][~IsNone(self'._error_message) => SameView(self, self')]_vars
    /\ [][(pc = "read" /\ Dispatches(iter')
                /\ Val(DispatchedTok(iter')) \in binding(self, "confirm")) =>
            SameView(self, self')]_vars

\* C5 witness: a cancel key read under the overlay has cleared it and the loop
\* goes on
C5_Witness ==
    /\ pc = "poll"
    /\ iter.overlay
    /\ iter.key = Some("ESC")
    /\ IsNone(self._error_message)
    /\ Cursor(self) > 0
    /\ SelectedSet(self) # {}

\* a step of run() that handles a confirm which passed validation
PassedValidation ==
    /\ pc = "chosen"
    /\ confirmed
    /\ pc' \in {"poll", "release"}
    /\ IsNone(self'._error_message)

\* C6: after a confirm that passes validation, on_confirm returning false
\* keeps run() in the loop (no Result is finalized, _prepare_choices is
\* re-run, the cursor and the selection are preserved and the loop reads on);
\* on_confirm returning true, or no on_confirm hook, finalizes the Result and
\* ends the run.
C6_OnConfirmVeto ==
    [][PassedValidation =>
        /\ ~HasHook(self, "on_confirm") => (iter'.accepted /\ iter'.on_confirm = 0)
        /\ HasHook(self, "on_confirm") => iter'.on_confirm = 1
        /\ ~iter'.accepted =>
            /\ pc' = "poll"
            /\ self'.result = self.result
            /\ life'.cause = ""
            /\ iter'.prepare = 1
            /\ SameView(self, self')
            /\ reader' = reader /\ reader.held
        /\ iter'.accepted =>
            /\ pc' = "release"
            /\ life'.cause = "confirm"
            /\ ~IsNone(self'.result)
            /\ iter'.prepare = 0]_vars

\* C6 witness: on_confirm has just vetoed a confirm made below the top
C6_Witness ==
    /\ pc = "poll"
    /\ iter.on_confirm = 1
    /\ ~iter.accepted
    /\ iter.prepare = 1
    /\ Cursor(self) > 0
    /\ IsNone(self.result)

\* C7: on_key is called exactly once for every non-empty key read while no
\* overlay is shown; if it returns None the key has no default effect, even
\* when it is bound to confirm or cancel; if it returns a token, the dispatch
\* proceeds with that token in place of the key read.
C7_OnKeyContract ==
    [][(pc = "read" /\ ~IsNone(iter'.key) /\ HasHook(self, "on_key")) =>
        LET key == Val(iter'.key)
            called == key # EMPTY_KEY /\ IsNone(self._error_message)
            n == Len(Display(self))
        IN  /\ iter'.on_key = IF called THEN 1 ELSE 0
            /\ (called /\ IsNone(iter'.intercepted)) =>
                /\ pc' = "poll"
                /\ SameView(self, self')
                /\ confirmed' = confirmed
                /\ self'._error_message = self._error_message
                /\ self'.result = self.result
                /\ iter'.on_change = 0
            /\ (called /\ ~IsNone(iter'.intercepted)) =>
                LET t == Val(iter'.intercepted)
                IN  /\ t \in binding(self, "cancel") => (pc' = "chosen" /\ ~confirmed')
                    /\ t \in binding(self, "confirm") => (pc' = "chosen" /\ confirmed')
                    /\ t \notin binding(self, "cancel") \cup binding(self, "confirm")
                        => pc' # "chosen"
                    /\ (t \in binding(self, "down") /\ Cursor(self) < n - 1)
                        => Cursor(self') = Cursor(self) + 1
                    /\ (t \in binding(self, "down") /\ n > 0 /\ Cursor(self) = n - 1)
                        => Cursor(self') = IF self.wrap_navigation THEN 0 ELSE n - 1]_vars

\* C7 witness: on_key turned an unbound key into a cancel key and the loop ended
C7_Witness ==
    /\ pc = "chosen"
    /\ ~confirmed
    /\ iter.key = Some("TAB")
    /\ iter.on_key = 1
    /\ iter.intercepted = Some("ESC")

\* C8: should_exit is polled before every read_key call, also in the
\* iterations that follow an ignored empty key, an overlay dismissal and a
\* rejected confirm; the first time it returns true run() ends with
\* (None, None) without reading another key and without invoking
\* _validate_selection or on_confirm.
C8_ShouldExitPolled ==
    /\ []((HasHook(self, "should_exit") /\ pc = "read") =>
            (iter.polled /\ ~iter.exit_now /\ ~iter.read))
    /\ []((HasHook(self, "should_exit") /\ iter.read) =>
            (iter.polled /\ ~iter.exit_now))
    /\ [](iter.exit_now =>
            /\ ~iter.read
            /\ iter.validate = 0 /\ iter.on_confirm = 0
            /\ pc \in {"chosen", "release", "after_run", "done"}
            /\ ~confirmed
            /\ Left => (self.result = Some(NoneNone) /\ life.cause = "should_exit")
            /\ pc = "done" => life.returned = Some(NoneNone))
    /\ [][(iter.exit_now /\ pc = "chosen") =>
            (pc' = "release" /\ self'.result = Some(NoneNone))]_vars
    /\ [][(iter.exit_now /\ Left) => (Left' /\ iter'.exit_now)]_vars

\* C8 witness: should_exit ended the run in the iteration after a rejected
\* confirm
C8_Witness ==
    /\ pc = "done"
    /\ life.cause = "should_exit"
    /\ life.rejected
    /\ life.any_read
    /\ life.returned = Some(NoneNone)

\* C9: in every run() that returns, before_run is invoked exactly once, before
\* _prepare_choices and before any key is read, and after_run is invoked
\* exactly once, after the Result is final, on the three terminal paths
\* (accepted confirm, cancel, should_exit); after_run sees the value run()
\* returns.
C9_RunHooks ==
    /\ life.before_run <= 1 /\ life.after_run <= 1
    /\ pc = "idle" => (life.before_run = 0 /\ ~life.prepared /\ ~life.any_read)
    /\ (HasHook(self, "before_run") /\ (life.prepared \/ life.any_read \/ pc # "idle"))
        => life.before_run = 1
    /\ life.after_run = 1 =>
        /\ pc = "done"
        /\ life.seen = self.result
    /\ pc = "done" =>
        /\ life.cause \in {"confirm", "cancel", "should_exit"}
        /\ HasHook(self, "after_run") => life.after_run = 1
        /\ HasHook(self, "before_run") => life.before_run = 1
        /\ ~IsNone(life.returned)
        /\ life.returned = self.result
        /\ HasHook(self, "after_run") => life.seen = life.returned

\* C9 witness: a MultiChooser run ended by should_exit has called both hooks
C9_Witness ==
    /\ pc = "done"
    /\ self.kind = "MultiChooser"
    /\ life.cause = "should_exit"
    /\ life.before_run = 1
    /\ life.after_run = 1
    /\ life.seen = Some(NoneNone)

\* C10: the KeyReader is acquired exactly once per run(), after before_run and
\* _prepare_choices, and released exactly once on every exit path (accepted
\* confirm, cancel, should_exit, an exception propagating out of the loop);
\* read_key is never called before the acquisition or after the release.
C10_ReaderScope ==
    /\ reader.entered <= 1
    /\ reader.exited <= reader.entered
    /\ reader.held <=> (reader.entered = 1 /\ reader.exited = 0)
    /\ ~reader.misuse
    /\ reader.entered = 1 =>
        (life.prepared /\ (HasHook(self, "before_run") => life.before_run = 1))
    /\ pc \in {"idle", "prepare", "acquire"} => (reader.entered = 0 /\ ~life.any_read)
    /\ pc \in {"poll", "read", "chosen", "release", "unwind"} => reader.held
    /\ pc \in {"after_run", "done", "raised"} =>
        (reader.entered = 1 /\ reader.exited = 1)

\* C10 witness: an exception left the loop after keys were read, and the
\* reader has been released
C10_Witness ==
    /\ pc = "raised"
    /\ life.cause = "exception"
    /\ life.any_read
    /\ reader.entered = 1
    /\ reader.exited = 1

\* C11: for Chooser, filtering Chooser, MultiChooser and ShortcutChooser, in
\* every configuration the constructor accepts (an empty choice list
\* included) and for every key sequence, run() raises no exception of its
\* own: no state of a run holds an error raised by the control's code.
C11_RunNeverRaises ==
    self.kind \in {"Chooser", "MultiChooser", "ShortcutChooser"} => IsNone(self.exc)

\* filtering by typed text is enabled in the control
FilteringOn(s) ==
    \/ s.enable_filtering
    \/ s.kind = "FilterChooser" /\ ~s.disable_filtering

\* hay contains needle, letter case ignored
Contains(hay, needle) ==
    \E k \in 0..(Len(hay) - Len(needle)) :
        \A j \in 1..Len(needle) : lower_char(hay[k + j]) = lower_char(needle[j])

\* the master-list positions of the choices whose text contains ft
Matches(s, ft) ==
    {r \in 1..Len(s.all_choices) : Contains(s.all_choices[r].value.plain, ft)}

Increasing(seq) == \A i, j \in 1..Len(seq) : i < j => seq[i] < seq[j]
Range(seq) == {seq[i] : i \in 1..Len(seq)}

\* a step of read_key whose key reaches the dispatch as a printable character
\* in a control with filtering enabled
TypedChar ==
    /\ pc = "read"
    /\ FilteringOn(self)
    /\ Dispatches(iter')
    /\ is_printable_char(Val(DispatchedTok(iter')))

\* C12 on the keys that are read: the typed character is appended, the display
\* list becomes the matching choices in master order, the cursor stays on the
\* highlighted choice if it still matches and goes to the first match
\* otherwise, and an accepted confirm returns the entry under the cursor with
\* its master-list index.
C12_TypedCharFilters ==
    /\ [][TypedChar =>
            LET ft == Append(self.filter_text, Val(DispatchedTok(iter')))
            IN  /\ self'.filter_text = ft
                /\ pc' = "poll"
                /\ Increasing(Display(self'))
                /\ Range(Display(self')) = Matches(self, ft)
                /\ Display(self') # <<>> =>
                    /\ self'.highlighted_index = UnderCursor(self').index
                    /\ IF (self.highlighted_index + 1) \in Matches(self, ft)
                       THEN self'.highlighted_index = self.highlighted_index
                       ELSE /\ Cursor(self') = 0
                            /\ self'.highlighted_index = Display(self')[1] - 1]_vars
    /\ []((FilteringOn(self) /\ Left /\ life.cause = "confirm") =>
            IF Display(self) = <<>>
            THEN self.result = Some(NoneNone)
            ELSE /\ self.result = Pair(UnderCursor(self).value.plain,
                                       UnderCursor(self).index)
                 /\ UnderCursor(self).index = At(Display(self), Cursor(self)) - 1)

\* C12: with filtering enabled, a printable key appends itself to the filter
\* text and the display list becomes the master-list choices whose text
\* contains the filter text case-insensitively; the cursor moves to the first
\* remaining match when the highlighted choice no longer matches, and a
\* following confirm returns that match with its master-list index. A run with
\* filtering enabled therefore gets to read its keys: it is not stopped by an
\* error of the control's own code.
C12_FilterThenSelect ==
    /\ C12_TypedCharFilters
    /\ [](FilteringOn(self) => IsNone(self.exc))

\* the filtering Chooser: after a typed character removed the highlighted
\* choice, a confirm returned the first match, whose master index is not 0
C12_ChooserWitness ==
    /\ pc = "done"
    /\ self.kind = "Chooser" /\ self.enable_filtering
    /\ self.filter_text = <<"B">>
    /\ life.cause = "confirm"
    /\ Len(Display(self)) = 2
    /\ Cursor(self) = 1
    /\ self.result = Pair(<<"B">>, 1)

\* the keys bound to a navigation action
NavKeys(s) ==
    binding(s, "up") \cup binding(s, "down") \cup binding(s, "home")
        \cup binding(s, "end") \cup binding(s, "page_up") \cup binding(s, "page_down")

FilterAppend ==
    /\ Len(self'.filter_text) = Len(self.filter_text) + 1
    /\ SubSeq(self'.filter_text, 1, Len(self.filter_text)) = self.filter_text

\* the master list of s2 has the length, order, texts and indices of that of s
SameMaster(s, s2) ==
    /\ Len(s2.all_choices) = Len(s.all_choices)
    /\ \A r \in 1..Len(s.all_choices) :
        /\ s2.all_choices[r].index = s.all_choices[r].index
        /\ s2.all_choices[r].value = s.all_choices[r].value

\* C14: for a fixed master list, appending a character (a printable key or
\* SPACE) to the filter text yields a display list that is an ordered
\* subsequence of the display list before the append, so the display list
\* never grows on an append.
C14_FilterMonotone ==
    [][FilterAppend =>
        /\ pc = "read" /\ self.enable_filtering
        /\ SameMaster(self, self')
        /\ Increasing(Display(self)) /\ Increasing(Display(self'))
        /\ Range(Display(self')) \subseteq Range(Display(self))
        /\ Len(Display(self')) <= Len(Display(self))]_vars

\* C14 witness: two appended characters have shrunk the display list of three
\* choices to one
C14_Witness ==
    /\ pc = "poll"
    /\ Len(self.all_choices) = 3
    /\ self.filter_text = <<"a", "B">>
    /\ Display(self) = <<1>>

\* C15: for any sequence of filter-text mutations (append, backspace) and
\* navigation keys the master list keeps its length and order, every choice
\* carries an index equal to its original position in the master list, and
\* the indices increase strictly along the display list.
C15_IndexStability ==
    /\ [](\A r \in 1..Len(self.all_choices) : self.all_choices[r].index = r - 1)
    /\ [][SameMaster(self, self')]_vars
    /\ [](pc \in {"poll", "read", "chosen", "release", "after_run", "done"} =>
            /\ Range(Display(self)) \subseteq 1..Len(self.all_choices)
            /\ \A i, j \in 1..Len(Display(self)) :
                i < j => self.all_choices[Display(self)[i]].index
                            < self.all_choices[Display(self)[j]].index)

\* C15 witness: after an append and a backspace with the cursor moved, the
\* display list is again the whole master list
C15_Witness ==
    /\ pc = "poll"
    /\ self.enable_filtering
    /\ iter.key = Some("BACKSPACE")
    /\ Dispatches(iter)
    /\ self.filter_text = <<"a">>
    /\ Display(self) = <<1, 3>>
    /\ Cursor(self) = 1

\* C16: after every processed key, if the display list is non-empty then
\* 0 <= highlighted_filtered_index < len(display list) and the display entry
\* at the cursor has index highlighted_index; after a filter change the cursor
\* stays on the previously highlighted choice when that choice is still
\* displayed, and otherwise is reset to position 0.
C16_CursorResync ==
    /\ []((pc \in {"poll", "read", "chosen"} /\ Display(self) # <<>>) =>
            /\ 0 <= Cursor(self)
            /\ Cursor(self) < Len(Display(self))
            /\ UnderCursor(self).index = self.highlighted_index
            /\ self.highlighted_choice = Some(At(Display(self), Cursor(self))))
    /\ [][(pc = "read" /\ self'.filter_text # self.filter_text) =>
            IF (self.highlighted_index + 1) \in Range(Display(self'))
            THEN /\ self'.highlighted_index = self.highlighted_index
                 /\ At(Display(self'), Cursor(self')) = self.highlighted_index + 1
            ELSE Cursor(self') = 0]_vars

\* C16 witness: a backspace brought back a choice above the highlighted one,
\* and the cursor followed its choice from display position 1 to position 2
C16_Witness ==
    /\ pc = "poll"
    /\ self.enable_filtering
    /\ iter.key = Some("BACKSPACE")
    /\ Dispatches(iter)
    /\ self.filter_text = <<>>
    /\ Len(Display(self)) = 3
    /\ Cursor(self) = 2
    /\ self.highlighted_index = 2

\* the symmetric difference of two sets
SymDiff(A, B) == (A \ B) \cup (B \ A)

\* the control after the loop body of _choose has handled SPACE
AfterSpace(s) == _choose_key(s, "SPACE").self

\* C17: in MultiChooser SPACE inverts is_selected of exactly the highlighted
\* choice and leaves every other flag and the cursor unchanged; two
\* consecutive SPACE presses restore the previous selection set; navigation
\* keys never change an is_selected flag.
C17_SpaceToggles ==
    /\ [][(pc = "read" /\ self.kind = "MultiChooser" /\ Dispatches(iter')
                /\ Val(DispatchedTok(iter')) = "SPACE" /\ Display(self) # <<>>) =>
            /\ SelectedSet(self') =
                    SymDiff(SelectedSet(self), {At(Display(self), Cursor(self))})
            /\ Cursor(self') = Cursor(self)
            /\ self'.highlighted_index = self.highlighted_index
            /\ iter'.on_change > 0
            /\ pc' = "poll"]_vars
    /\ []((pc = "read" /\ self.kind = "MultiChooser" /\ Display(self) # <<>>) =>
            /\ SelectedSet(AfterSpace(AfterSpace(self))) = SelectedSet(self)
            /\ Cursor(AfterSpace(AfterSpace(self))) = Cursor(self))
    /\ [][(pc = "read" /\ self.kind = "MultiChooser" /\ Dispatches(iter')
                /\ Val(DispatchedTok(iter')) \in NavKeys(self)) =>
            SelectedSet(self') = SelectedSet(self)]_vars

\* C17 witness: a SPACE on the second row has just deselected the only
\* selected choice
C17_Witness ==
    /\ pc = "poll"
    /\ self.kind = "MultiChooser"
    /\ iter.key = Some("SPACE")
    /\ Dispatches(iter)
    /\ Cursor(self) = 1
    /\ SelectedSet(self) = {}

\* the values and the indices of a result that is not (None, None)
Values(result) == Val(Val(result).value)
Indices(result) == Val(Val(result).index)

\* C18: on an accepted confirm MultiChooser returns (values, indices) listing
\* exactly the choices whose is_selected is true, in ascending master-index
\* order, with values[i] the text of choice indices[i]; if no choice is
\* selected the result is (None, None), the same pair as a cancel.
C18_SelectedInMasterOrder ==
    /\ (self.kind = "MultiChooser" /\ life.cause = "confirm") =>
        /\ Left
        /\ SelectedSet(self) = {} => self.result = Some(NoneNone)
        /\ SelectedSet(self) # {} =>
            /\ self.result # Some(NoneNone)
            /\ Increasing(Indices(self.result))
            /\ Range(Indices(self.result)) = {r - 1 : r \in SelectedSet(self)}
            /\ Len(Values(self.result)) = Len(Indices(self.result))
            /\ \A i \in 1..Len(Indices(self.result)) :
                    Values(self.result)[i] =
                        At(self.all_choices, Indices(self.result)[i]).value
        /\ pc = "done" => life.returned = self.result
    /\ (self.kind = "MultiChooser" /\ life.cause = "cancel") =>
            self.result = Some(NoneNone)

\* C18 witness: the last of three choices was pre-selected, the first one
\* toggled afterwards, and run() has returned both in master order
C18_Witness ==
    /\ pc = "done"
    /\ self.kind = "MultiChooser"
    /\ life.cause = "confirm"
    /\ Len(self.all_choices) = 3
    /\ life.returned # Some(NoneNone)
    /\ Indices(life.returned) = <<0, 2>>

\* the message MultiChooser validation owes to a count outside the bounds
OwedMessage(s) ==
    IF ~IsNone(s.min_selected) /\ ~IsNone(s.max_selected)
    THEN ErrorMessage("range_selected_error", s.min_selected, s.max_selected)
    ELSE IF ~IsNone(s.min_selected)
    THEN ErrorMessage("min_selected_error", s.min_selected, None)
    ELSE ErrorMessage("max_selected_error", None, s.max_selected)

\* C19: MultiChooser validation returns no error iff the count c of selected
\* choices satisfies min_selected <= c when min_selected is set and
\* c <= max_selected when max_selected is set (a bound of 0 counts as set);
\* on a violation it returns the range message when both bounds are set,
\* otherwise the min message or the max message of the violated bound.
C19_ValidationBounds ==
    /\ [](self.kind = "MultiChooser" =>
            /\ IsNone(_validate_selection(self)) <=> ~Violates(self)
            /\ Violates(self) => _validate_selection(self) = Some(OwedMessage(self)))
    /\ [][(pc = "chosen" /\ confirmed /\ self.kind = "MultiChooser"
                /\ Violates(self)) =>
            /\ self'._error_message = Some(OwedMessage(self))
            /\ pc' = "poll"]_vars

\* C19 witness: with max_selected = 0 and no lower bound, a confirm with one
\* choice selected is answered by the max message
C19_Witness ==
    /\ pc = "poll"
    /\ self.kind = "MultiChooser"
    /\ self.max_selected = Some(0)
    /\ IsNone(self.min_selected)
    /\ Cardinality(SelectedSet(self)) = 1
    /\ self._error_message = Some(ErrorMessage("max_selected_error", None, Some(0)))

\* the keys of the alphabet that are bound to no action of s
Unbound(s) == Keys \ UNION {binding(s, a) : a \in DOMAIN s.keybindings}

\* C20: in ShortcutChooser, handling a key bound to choice i moves the cursor
\* to choice i without an error of the control, and reports a confirm exactly
\* when no_confirm is set; a key that is bound to no shortcut and no action
\* leaves the cursor unchanged.
C20_ShortcutJumps ==
    (pc = "idle" /\ self.kind = "ShortcutChooser") =>
        /\ \A key \in DOMAIN self.shortcut_key_to_index :
                /\ IsNone(_handle_other_key(self, key).self.exc)
                /\ Cursor(_handle_other_key(self, key).self)
                        = self.shortcut_key_to_index[key]
                /\ _handle_other_key(self, key).ret = self.no_confirm
        /\ \A key \in Unbound(self) \ DOMAIN self.shortcut_key_to_index :
                /\ Cursor(_handle_other_key(self, key).self) = Cursor(self)
                /\ _handle_other_key(self, key).ret = FALSE

----------------------------------------------------------------------------
(* Construction of a ShortcutChooser, followed by the start of run() *)

MaxShortcutChoices == 11   \* longest choice list given to ShortcutChooser
MaxShortcutKeys == 3       \* longest explicit shortcut_keys list
ShortcutLetters == {"x", "y"}

\* the explicit shortcut_keys lists
ShortcutKeyLists ==
    UNION {[1..k -> ShortcutLetters] : k \in 0..MaxShortcutKeys}

\* ShortcutChooser.__init__, lines 61-66, entered with len(choices) = n
ShortcutNew(n, shortcut_keys, strict_mode, no_confirm) ==
    [kind |-> "ShortcutChooser",
     choices |-> n,
     arg_shortcut_keys |-> shortcut_keys,
     shortcut_keys |-> <<>>,
     shortcut_key_to_index |-> KeyToIndex(<<>>),
     no_confirm |-> no_confirm,
     strict_mode |-> strict_mode,
     auto_mode |-> IsNone(shortcut_keys),
     exc |-> None,
     message |-> None]

ShortcutInit ==
    /\ \E n \in 0..MaxShortcutChoices, shortcut_keys \in Opt(ShortcutKeyLists),
          strict_mode \in BOOLEAN, no_confirm \in BOOLEAN :
          self = ShortcutNew(n, shortcut_keys, strict_mode, no_confirm)
    /\ pc = "new"
    /\ confirmed = FALSE
    /\ reader = ReaderStart
    /\ iter = IterStart
    /\ life = LifeStart

\* __init__, line 69: self._init_shortcuts(choices, shortcut_keys)
InitShortcuts ==
    /\ pc = "new"
    /\ \E made \in {_init_shortcuts(self.choices, self.arg_shortcut_keys,
                                    self.strict_mode)} :
          /\ self' = [self EXCEPT !.shortcut_keys = made.shortcut_keys,
                                  !.shortcut_key_to_index = made.shortcut_key_to_index,
                                  !.exc = made.exc,
                                  !.message = made.message]
          /\ pc' = IF IsNone(made.exc) THEN "super_init" ELSE "failed"
    /\ UNCHANGED <<confirmed, reader, iter, life>>

\* __init__, lines 71-93: super().__init__(...) with the defaults of every
\* argument the caller did not give
SuperInit ==
    /\ pc = "super_init"
    /\ self' = [__init__("ShortcutChooser", self.choices, TRUE, FALSE, None, {},
                         None, None, Some(10), NoOverrides, {}, self.no_confirm)
                    EXCEPT !.shortcut_keys = self.shortcut_keys,
                           !.shortcut_key_to_index = self.shortcut_key_to_index]
    /\ pc' = "idle"
    /\ UNCHANGED <<confirmed, reader, iter, life>>

ShortcutNext ==
    \/ InitShortcuts
    \/ SuperInit
    \/ BeforeRun
    \/ PrepareChoices

ShortcutSpec == ShortcutInit /\ [][ShortcutNext]_vars

\* the key auto mode assigns to the choice of index i < 10: "1".."9", "0"
AutoKey(i) == DigitStr((i + 1) % 10)

\* the step of the constructor that binds the keys of auto mode binds the
\* first ten choices of at most `most` choices to "1".."9", "0" and no other
AutoBinds(most) ==
    (pc = "new" /\ self.auto_mode /\ self.choices <= most) =>
        /\ Len(self'.shortcut_keys) = Min2(self.choices, 10)
        /\ \A i \in 0..(Min2(self.choices, 10) - 1) :
                /\ At(self'.shortcut_keys, i) = AutoKey(i)
                /\ AutoKey(i) \in DOMAIN self'.shortcut_key_to_index
                /\ self'.shortcut_key_to_index[AutoKey(i)] = i

\* C21: in auto mode the first ten choices are bound to the keys "1", "2",
\* ..., "9", "0" in that order, choices beyond the tenth have no shortcut
\* key, and each of the ten keys maps to the choice among the first ten it
\* was assigned to.
C21_AutoModeKeys == [][AutoBinds(MaxShortcutChoices)]_vars

\* C21 for lists of at most ten choices
C21_UpToTen == [][AutoBinds(10)]_vars

\* the constructor is about to bind explicit shortcut keys
ExplicitKeys(strict) ==
    pc = "new" /\ ~self.auto_mode /\ self.strict_mode = strict

\* the explicit shortcut_keys argument of the constructor
GivenKeys(s) == Val(s.arg_shortcut_keys)

\* C22: with explicit shortcut_keys in strict mode, construction fails with a
\* ValueError, before anything is rendered, iff the number of keys differs
\* from the number of choices or two of the keys are equal; otherwise
\* construction succeeds and key j maps to choice index j.
C22_StrictMode ==
    /\ [][ExplicitKeys(TRUE) =>
            /\ pc' = "failed" <=>
                    \/ Len(GivenKeys(self)) # self.choices
                    \/ \E i, j \in 1..Len(GivenKeys(self)) :
                            i # j /\ GivenKeys(self)[i] = GivenKeys(self)[j]
            /\ pc' = "failed" <=> self'.exc = Some("ValueError")
            /\ pc' # "failed" =>
                /\ pc' = "super_init"
                /\ self'.shortcut_keys = GivenKeys(self)
                /\ DOMAIN self'.shortcut_key_to_index =
                        {GivenKeys(self)[j] : j \in 1..self.choices}
                /\ \A j \in 1..self.choices :
                        self'.shortcut_key_to_index[GivenKeys(self)[j]] = j - 1]_vars
    /\ [](pc = "failed" =>
            /\ ~life.prepared
            /\ reader = ReaderStart
            /\ iter = IterStart)
    /\ [][pc = "failed" => UNCHANGED vars]_vars

\* C22 witness: three keys for three choices, the first and the last equal,
\* have stopped a strict construction
C22_Witness ==
    /\ pc = "failed"
    /\ self.strict_mode
    /\ self.choices = 3
    /\ self.arg_shortcut_keys = Some(<<"x", "y", "x">>)
    /\ self.exc = Some("ValueError")
    /\ self.message = Some("Duplicate shortcut keys found")

\* the positions (1-based) at which key occurs in keys
Occurrences(keys, key) == {i \in 1..Len(keys) : keys[i] = key}

\* the largest member of a non-empty set of integers
Largest(S) == CHOOSE x \in S : \A y \in S : y <= x

\* C23: with explicit shortcut_keys in lenient mode construction never fails:
\* keys beyond the number of choices are dropped, each remaining key maps to
\* the largest index at which it occurs, and every index in the key-to-index
\* map is a valid choice index.
C23_LenientMode ==
    /\ [][ExplicitKeys(FALSE) =>
            /\ pc' = "super_init"
            /\ IsNone(self'.exc)
            /\ Len(self'.shortcut_keys) = Min2(Len(GivenKeys(self)), self.choices)
            /\ \A i \in 1..Len(self'.shortcut_keys) :
                    self'.shortcut_keys[i] = GivenKeys(self)[i]
            /\ DOMAIN self'.shortcut_key_to_index =
                    {self'.shortcut_keys[i] : i \in 1..Len(self'.shortcut_keys)}
            /\ \A key \in DOMAIN self'.shortcut_key_to_index :
                    /\ self'.shortcut_key_to_index[key] =
                            Largest(Occurrences(self'.shortcut_keys, key)) - 1
                    /\ self'.shortcut_key_to_index[key] \in 0..(self.choices - 1)]_vars
    /\ [][pc = "super_init" => (pc' = "idle" /\ IsNone(self'.exc))]_vars

\* C23 witness: of the keys x, x, y given for two choices, y was dropped and
\* x maps to the second choice
C23_Witness ==
    /\ pc = "super_init"
    /\ ~self.strict_mode
    /\ self.choices = 2
    /\ self.arg_shortcut_keys = Some(<<"x", "x", "y">>)
    /\ self.shortcut_keys = <<"x", "x">>
    /\ self.shortcut_key_to_index["x"] = 1

\* the ShortcutChooser is constructed
Constructed == pc \notin {"new", "super_init", "failed"}

\* C24: in lenient mode a shortcut_keys list shorter than the choice list is
\* tolerated at run time as well as at construction: run() is not stopped by
\* an error of the control while it prepares and displays the choices.
C24_ShortKeyListRuns ==
    (Constructed /\ Len(self.shortcut_keys) < Len(self.all_choices)) =>
        /\ IsNone(self.exc)
        /\ pc # "aborted"

----------------------------------------------------------------------------
(* run() of a Chooser constructed with keybindings overrides *)

\* the keybindings arguments that are tried: none, cancel on ESC only, and
\* the arrow keys exchanged
KeyOverrides ==
    {NoOverrides,
     [cancel |-> {"ESC"}],
     [up |-> {"DOWN_ARROW"}, down |-> {"UP_ARROW"}]}

KeyInit ==
    /\ \E n \in 0..MaxChoices, wrap \in BOOLEAN, hooks \in HookSets,
          height \in HeightOptions, overrides \in KeyOverrides :
          /\ self = __init__("Chooser", n, wrap, FALSE, None, {}, None, None,
                             height, overrides, hooks, FALSE)
          /\ life = [LifeStart EXCEPT !.overrides = overrides]
    /\ pc = "idle"
    /\ confirmed = FALSE
    /\ reader = ReaderStart
    /\ iter = IterStart

KeySpec == KeyInit /\ [][Next]_vars

\* the keys of `action` in the table the constructor owes to `overrides`
Owed(overrides, action) ==
    IF action \in DOMAIN overrides THEN overrides[action]
    ELSE DEFAULT_KEYBINDINGS[action]

\* C25: the keybinding table is the class defaults overwritten per action: an
\* action named in the user overrides gets exactly the user's key list, so a
\* default key of that action that the user did not list no longer triggers
\* it, and every other action keeps its default list; run() never modifies
\* the table.
C25_KeybindingTable ==
    /\ [](/\ DOMAIN self.keybindings =
                DOMAIN DEFAULT_KEYBINDINGS \cup DOMAIN life.overrides
          /\ \A a \in DOMAIN self.keybindings :
                binding(self, a) = Owed(life.overrides, a))
    /\ [][self'.keybindings = self.keybindings]_vars
    /\ [][(pc = "read" /\ Dispatches(iter')
                /\ "cancel" \in DOMAIN life.overrides
                /\ Val(DispatchedTok(iter')) \in
                        DEFAULT_KEYBINDINGS.cancel \ life.overrides.cancel) =>
            /\ pc' = "poll"
            /\ Cursor(self') = Cursor(self)]_vars
    /\ [][(pc = "read" /\ Dispatches(iter') /\ Len(self.all_choices) >= 2
                /\ Cursor(self) = 0
                /\ "up" \in DOMAIN life.overrides
                /\ Val(DispatchedTok(iter')) \in
                        DEFAULT_KEYBINDINGS.up \ life.overrides.up) =>
            Cursor(self') = 1]_vars

\* C25 witness: with cancel bound to ESC only, CTRL_C was read and
\* dispatched, and the loop goes on
C25_Witness ==
    /\ pc = "poll"
    /\ "cancel" \in DOMAIN life.overrides
    /\ iter.key = Some("CTRL_C")
    /\ Dispatches(iter)
    /\ DispatchedTok(iter) = Some("CTRL_C")

\* an extension point of the control handles the token: _handle_other_key
\* of MultiChooser takes SPACE, that of a filtering Chooser the keys that
\* edit the filter text
Handled(s, tok) ==
    \/ s.kind = "MultiChooser" /\ tok = "SPACE"
    \/ s.enable_filtering /\ edits_filter(s, tok)

----------------------------------------------------------------------------
(* Chooser._render: the rows of one frame *)

\* _render, lines 333-343: the rows in the table before the choices (title of
\* a borderless control, inside_top header, filter row)
rows_so_far(s) == s.header_rows + (IF s.enable_filtering THEN 1 ELSE 0)

\* Faulty variant of first_start: the offset is not limited to half of
\* max_items
first_start_fixed_offset(hfi, max_items) == Max2(0, hfi - SCROLL_TOP_OFFSET)

\* _render, lines 355-356
first_start(hfi, max_items) ==
    Max2(0, hfi - Min2(SCROLL_TOP_OFFSET, max_items \div 2))

\* int(b)
int(b) == IF b THEN 1 ELSE 0

\* the window and the arrows as a record
Window(start, end, up, down) ==
    [start |-> start, end |-> end, show_up_arrow |-> up, show_down_arrow |-> down]

\* Faulty variant of clamped_window: the start is not kept from scrolling
\* past the bottom
clamped_window_unclamped(total_items, max_items, start, up, down) ==
    Window(start, start + (max_items - (int(up) + int(down))), up, down)

\* Faulty variant of clamped_window: the start is clamped as if no row went
\* to the arrows
clamped_window_max_items(total_items, max_items, start, up, down) ==
    Window(Min2(start, total_items - max_items),
           Min2(start, total_items - max_items) + (max_items - (int(up) + int(down))),
           up, down)

\* _render, lines 362-373: arrow_rows, choice_rows, and the start kept from
\* scrolling past the bottom
clamped_window(total_items, max_items, start, up, down) ==
    Window(Min2(start, total_items - (max_items - (int(up) + int(down)))),
           Min2(start, total_items - (max_items - (int(up) + int(down))))
                + (max_items - (int(up) + int(down))),
           up, down)

\* _render, lines 353-373: the scrolling case, start being the position
\* SCROLL_TOP_OFFSET rows above the cursor
scroll_window(total_items, max_items, start) ==
    clamped_window(total_items, max_items,
                   IF start > 0 THEN start + 1 ELSE start,
                   start > 0, (start + max_items) < total_items)

\* _render, lines 345-373
visible_window(total_items, max_items, hfi) ==
    IF total_items <= max_items THEN Window(0, total_items, FALSE, FALSE)
    ELSE scroll_window(total_items, max_items, first_start(hfi, max_items))

\* a bound of a Python slice over a list of n items
slice_bound(n, i) == IF i < 0 THEN Max2(0, n + i) ELSE Min2(i, n)

\* _render, lines 384-386: len(display_choices[start:end]), one row each
choice_rows_emitted(n, w) ==
    Max2(0, slice_bound(n, w.end) - slice_bound(n, w.start))

\* _render, lines 398-411: blank rows under `current_rows` table rows
blank_rows_needed(s, current_rows) ==
    IF IsNone(s.height) THEN 0
    ELSE Max2(0, (Val(s.height) - (IF s.show_border THEN 2 ELSE 0)
                    - (IF s.footer THEN 1 ELSE 0)) - current_rows)

\* the rows of the table once the arrows and the choices of window w are added
rows_with_choices(s, w) ==
    rows_so_far(s) + int(w.show_up_arrow) + (w.end - w.start)
        + int(w.show_down_arrow)

\* _render for the default header location: the window, the padding and the
\* height of the frame (table rows, footer row, border rows)
frame_of(s, max_items, w) ==
    [max_items |-> max_items,
     window |-> w,
     choice_rows |-> choice_rows_emitted(Len(_get_display_choices(s)), w),
     blank_rows |-> blank_rows_needed(s, rows_with_choices(s, w)),
     rows |-> rows_with_choices(s, w)
                + blank_rows_needed(s, rows_with_choices(s, w))
                + (IF s.footer THEN 1 ELSE 0)
                + (IF s.show_border THEN 2 ELSE 0)]

render_frame(s, max_items) ==
    frame_of(s, max_items,
             visible_window(Len(_get_display_choices(s)), max_items,
                            s.highlighted_filtered_index))

Frame(s) ==
    render_frame(s, _visible_count(s, _get_display_choices(s), rows_so_far(s)))

MaxRenderItems == 12    \* longest list rendered
MaxRenderHeight == 12   \* largest height and max_height
MaxHeaderRows == 2      \* title row and header row

\* (height, max_height) as the constructor may be given them
HeightConfigs ==
    {<<None, None>>}
        \cup {<<Some(h), None>> : h \in 1..MaxRenderHeight}
        \cup {<<None, Some(h)>> : h \in 1..MaxRenderHeight}

RenderInit ==
    /\ \E n \in 0..MaxRenderItems, hc \in HeightConfigs, border \in BOOLEAN,
          footer \in BOOLEAN, header_rows \in 0..MaxHeaderRows :
          self = [__init__("Chooser", n, TRUE, FALSE, None, {}, None, None, hc[1],
                           NoOverrides, {}, FALSE)
                    EXCEPT !.max_height = hc[2], !.show_border = border,
                           !.footer = footer, !.header_rows = header_rows]
    /\ pc = "frame"
    /\ confirmed = FALSE
    /\ reader = ReaderStart
    /\ iter = IterStart
    /\ life = LifeStart

\* live.update(self._render()): iter holds the frame
RenderFrame ==
    /\ pc = "frame"
    /\ iter' = Frame(self)
    /\ pc' = "shown"
    /\ UNCHANGED <<self, confirmed, reader, life>>

\* a key moves the cursor to another entry of the display list
MoveCursor ==
    /\ pc = "shown"
    /\ \E i \in 0..(Len(_get_display_choices(self)) - 1) :
          /\ i # self.highlighted_filtered_index
          /\ self' = goto(self, i).self
    /\ iter' = IterStart
    /\ pc' = "frame"
    /\ UNCHANGED <<confirmed, reader, life>>

RenderNext ==
    \/ RenderFrame
    \/ MoveCursor

RenderSpec == RenderInit /\ [][RenderNext]_vars

\* a frame of the control is on display
Shown == pc = "shown"

\* the frame on display scrolls: the display list is longer than max_items
Scrolls == Shown /\ Len(Display(self)) > iter.max_items

\* C27: for every display-list length N, every height configuration and every
\* cursor position h in [0, N-1], with max_items as produced by
\* _visible_count (at least 5 whenever scrolling is needed), the window
\* [start, end) of the frame satisfies 0 <= start <= h < end <= N; when
\* N <= max_items the window is [0, N) with no arrows.
C27_CursorInWindow ==
    Shown =>
        /\ iter.max_items = _visible_count(self, Display(self), rows_so_far(self))
        /\ Scrolls => iter.max_items >= MIN_VISIBLE_WHEN_SCROLLING
        /\ 0 <= iter.window.start
        /\ iter.window.start <= iter.window.end
        /\ iter.window.end <= Len(Display(self))
        /\ Len(Display(self)) > 0 =>
            /\ iter.window.start <= Cursor(self)
            /\ Cursor(self) < iter.window.end
        /\ ~Scrolls =>
            /\ iter.window.start = 0
            /\ iter.window.end = Len(Display(self))
            /\ ~iter.window.show_up_arrow
            /\ ~iter.window.show_down_arrow

\* C27 witness: twelve choices in a bordered frame of height 8 (five rows for
\* items), the cursor on the last one, which is the last row of the window
C27_Witness ==
    /\ Scrolls
    /\ Len(Display(self)) = 12
    /\ self.height = Some(8)
    /\ iter.max_items = 5
    /\ Cursor(self) = 11
    /\ iter.window.end = 12
    /\ iter.window.start = 8

\* C28: in the scrolling case the up-arrow row is shown iff the final window
\* hides at least one item above it (start > 0) and the down-arrow row is
\* shown iff the final window hides at least one item below it (end < N).
C28_ArrowsMatchHidden ==
    Scrolls =>
        /\ iter.window.show_up_arrow <=> iter.window.start > 0
        /\ iter.window.show_down_arrow <=> iter.window.end < Len(Display(self))
        /\ int(iter.window.show_up_arrow) + (iter.window.end - iter.window.start)
                + int(iter.window.show_down_arrow) = iter.max_items

\* C28 witness: the window reaches the end of the list, so only the up arrow
\* is shown
C28_Witness ==
    /\ Scrolls
    /\ iter.window.show_up_arrow
    /\ ~iter.window.show_down_arrow
    /\ iter.window.start > 1
    /\ iter.window.end = Len(Display(self))
    /\ Cursor(self) < Len(Display(self)) - 1

\* C29: when height = H is given, every rendered frame is exactly H rows tall
\* in total (border rows, title/header rows, arrow rows, choice rows, blank
\* padding rows, footer row), for every list length and every cursor
\* position.
C29_FrameHeight ==
    (Shown /\ ~IsNone(self.height)) => iter.rows = Val(self.height)

\* C29 when the height leaves at least MIN_VISIBLE_WHEN_SCROLLING rows for
\* the choices
C29_RoomyFrameHeight ==
    (Shown /\ ~IsNone(self.height)
        /\ rows_for_items(self, rows_so_far(self)) >= MIN_VISIBLE_WHEN_SCROLLING) =>
            iter.rows = Val(self.height)

\* C30: on_change is fired after a key only if that key changed the
\* highlighted entry (or, in MultiChooser, toggled a selection): a key that
\* leaves the highlight where it was, such as up at the top with
\* wrap_navigation off or a key bound to nothing, does not fire on_change.
C30_OnChangeOnlyOnChange ==
    [][(pc = "read" /\ ~IsNone(iter'.key)
            /\ self.kind \in {"Chooser", "MultiChooser"}
            /\ self'.highlighted_choice = self.highlighted_choice
            /\ Cursor(self') = Cursor(self)
            /\ SelectedSet(self') = SelectedSet(self)) =>
        iter'.on_change = 0]_vars

----------------------------------------------------------------------------
(* Construction of a Chooser with selected_index and selected_value, followed
   by run() *)

\* Chooser.__init__, lines 174-179, reached when selected_index is None or out
\* of range: the loop body reads choice.plain, and Chooser.Choice (lines
\* 42-58) has no attribute plain
select_by_value(s, selected_value) ==
    IF IsNone(selected_value) \/ Val(selected_value) = <<>> THEN s
    ELSE IF s.all_choices = <<>> THEN s
    ELSE missing_attribute(s)

\* Chooser.__init__ for n choices, lines 170-180
Chooser_init(n, wrap, height, selected_index, selected_value) ==
    IF ~IsNone(selected_index) /\ 0 <= Val(selected_index) /\ Val(selected_index) < n
    THEN __init__("Chooser", n, wrap, FALSE, selected_index, {}, None, None,
                  height, NoOverrides, {}, FALSE)
    ELSE select_by_value(
            __init__("Chooser", n, wrap, FALSE, selected_index, {}, None, None,
                     height, NoOverrides, {}, FALSE),
            selected_value)

\* the selected_value arguments that are tried: none, the empty string, the
\* text of the third choice in lower case, and a text of no choice
SelectedValues == {None, Some(<<>>), Some(<<"a">>), Some(<<"B", "B">>)}

SelectInit ==
    /\ \E n \in 0..MaxChoices, wrap \in BOOLEAN, height \in HeightOptions,
          selected_index \in Opt((-1)..MaxChoices),
          selected_value \in SelectedValues :
          /\ self = [kind |-> "Chooser", choices |-> n, wrap_navigation |-> wrap,
                     height |-> height, exc |-> None]
          /\ life = [LifeStart EXCEPT
                        !.asked = Some([selected_index |-> selected_index,
                                        selected_value |-> selected_value])]
    /\ pc = "new"
    /\ confirmed = FALSE
    /\ reader = ReaderStart
    /\ iter = IterStart

\* Chooser(choices=..., selected_index=..., selected_value=...)
Construct ==
    /\ pc = "new"
    /\ \E made \in {Chooser_init(self.choices, self.wrap_navigation, self.height,
                                 Val(life.asked).selected_index,
                                 Val(life.asked).selected_value)} :
          /\ self' = IF IsNone(made.exc) THEN made ELSE [self EXCEPT !.exc = made.exc]
          /\ pc' = IF IsNone(made.exc) THEN "idle" ELSE "failed"
    /\ UNCHANGED <<confirmed, reader, iter, life>>

SelectNext ==
    \/ Construct
    \/ BeforeRun
    \/ PrepareChoices
    \/ AcquireReader
    \/ Poll
    \/ ReadKey
    \/ Settle
    \/ ReleaseReader
    \/ AfterRun

SelectSpec == SelectInit /\ [][SelectNext]_vars

\* the indices of the n choices whose text equals value, case ignored
MatchingValue(n, value) ==
    {i \in 0..(n - 1) :
        ~IsNone(value) /\ lower(from_markup(ChoiceSource(i)).plain) = lower(Val(value))}

\* the index the constructor is to highlight at first
InitialHighlight(n, asked) ==
    IF MatchingValue(n, asked.selected_value) # {}
    THEN CHOOSE i \in MatchingValue(n, asked.selected_value) :
            \A j \in MatchingValue(n, asked.selected_value) : i <= j
    ELSE IF ~IsNone(asked.selected_index) /\ Val(asked.selected_index) \in 0..(n - 1)
    THEN Val(asked.selected_index)
    ELSE 0

\* the choice and index that a confirm pressed as the first key is to return
FirstConfirm ==
    Pair(At(self.all_choices,
            InitialHighlight(Len(self.all_choices), Val(life.asked))).value.plain,
         InitialHighlight(Len(self.all_choices), Val(life.asked)))

\* a run that a confirm pressed as the first key has ended
ConfirmedAtOnce ==
    /\ pc = "done"
    /\ life.cause = "confirm"
    /\ life.downs = Some(0)
    /\ Len(self.all_choices) > 0

\* C31: at construction, a selected_value that matches a choice's text
\* case-insensitively sets the initial highlight to that choice and overrides
\* selected_index; otherwise an in-range selected_index sets the initial
\* highlight, and an out-of-range index leaves it on the first choice; a
\* confirm pressed as the first key returns the initially highlighted choice
\* with its index.
C31_InitialHighlight ==
    /\ [][pc = "new" =>
            /\ pc' = "idle"
            /\ self'.highlighted_index = InitialHighlight(self.choices, Val(life.asked))
            /\ Cursor(self') = InitialHighlight(self.choices, Val(life.asked))]_vars
    /\ [](ConfirmedAtOnce => life.returned = FirstConfirm)

\* C31 for the constructions that pass no selected_value
C31_ByIndexOnly ==
    /\ [][(pc = "new" /\ IsNone(Val(life.asked).selected_value)) =>
            /\ pc' = "idle"
            /\ self'.highlighted_index = InitialHighlight(self.choices, Val(life.asked))
            /\ Cursor(self') = InitialHighlight(self.choices, Val(life.asked))]_vars
    /\ []((ConfirmedAtOnce /\ IsNone(Val(life.asked).selected_value)) =>
            life.returned = FirstConfirm)
----------------------------------------------------------------------------
(* FileChooser over a small directory tree.  A path is the sequence of its
   names below the root; every name is one character.  No name is hidden or
   starts with a double underscore, and the glob is "*". *)

IS_WINDOWS == FALSE
sep == "/"

\* the tree: / holds the files a and c and the directory b, /b holds the
\* file A and the directory e, /b/e is empty
FS_dirs(path) ==
    CASE path = <<>> -> {"b"}
      [] path = <<"b">> -> {"e"}
      [] OTHER -> {}

FS_files(path) ==
    CASE path = <<>> -> {"a", "c"}
      [] path = <<"b">> -> {"A"}
      [] OTHER -> {}

\* Path.parent
parent(path) == IF path = <<>> THEN <<>> ELSE SubSeq(path, 1, Len(path) - 1)

\* Path.is_dir(), Path.is_file(), Path.exists()
is_dir(path) == path = <<>> \/ path[Len(path)] \in FS_dirs(parent(path))
is_file(path) == path # <<>> /\ path[Len(path)] \in FS_files(parent(path))
exists(path) == is_dir(path) \/ is_file(path)

\* Path(".").resolve(): the working directory of the process
Cwd == <<"b">>

\* str(path)
path_str(path) ==
    IF path = <<>> THEN <<sep>>
    ELSE [i \in 1..(2 * Len(path)) |-> IF i % 2 = 1 THEN sep ELSE path[i \div 2]]

\* the key of sorted(..., key=str.casefold) for the names of the tree
casefold_key(name) ==
    CHOOSE k \in 1..5 : <<"a", "b", "c", "d", "e">>[k] = lower_char(name[1])

\* sorted(names, key=str.casefold)
RECURSIVE sorted_casefold(_)
sorted_casefold(names) ==
    IF names = {} THEN <<>>
    ELSE LET first == CHOOSE x \in names :
                        \A y \in names : casefold_key(x) <= casefold_key(y)
         IN  <<first>> \o sorted_casefold(names \ {first})

\* _prepare_choices, lines 153-159
resolve_current(path) ==
    IF ~exists(path) THEN [path |-> Cwd, highlighted_file |-> <<>>]
    ELSE IF is_file(path)
    THEN [path |-> parent(path), highlighted_file |-> <<path[Len(path)]>>]
    ELSE [path |-> path, highlighted_file |-> <<>>]

\* _prepare_choices, lines 161-185
dir_names(path) == sorted_casefold({<<d, sep, " ">> : d \in FS_dirs(path)})
file_names(path) == sorted_casefold({<<f>> : f \in FS_files(path)})

\* _prepare_choices, lines 187-201: the entries that are no file and no
\* directory of the listing
special_entries(path, choose_dirs) ==
    <<IF choose_dirs
      THEN <<"S", "E", "L", "E", "C", "T", " ">> \o path_str(path) \o <<sep>>
      ELSE <<".", sep, " ", " ", " ", " ", "[grey70]", "(">>
              \o path_str(path) \o <<")", "[/]">>>>
    \o (IF parent(path) # path
        THEN <<<<".", ".", sep, " ", " ", " ", "[grey70]", "(">>
              \o path_str(parent(path)) \o <<")", "[/]">>>>
        ELSE <<>>)

\* Range of a sequence
Elems(seq) == {seq[i] : i \in 1..Len(seq)}

\* _prepare_choices, lines 216-221
listed_names(path, choose_dirs, files_at_top) ==
    IF choose_dirs THEN dir_names(path)
    ELSE IF files_at_top THEN file_names(path) \o dir_names(path)
    ELSE sorted_casefold(Elems(file_names(path) \o dir_names(path)))

\* _prepare_choices, lines 217-225
initial_index(names, specials, choose_dirs, highlighted_file) ==
    IF choose_dirs \/ names = <<>> THEN 0
    ELSE Len(specials)
         + (IF highlighted_file \in Elems(names)
            THEN list_index(names, highlighted_file) ELSE 0)

\* _prepare_choices, lines 227-233
with_listing(s, path, texts, index) ==
    [s EXCEPT !.current_path = path,
              !.all_choices = [i \in 1..Len(texts) |-> Choice(i - 1, texts[i])],
              !.highlighted_index = index,
              !.highlighted_filtered_index = index]

\* _prepare_choices, lines 237-247
auto_filtering(s) ==
    [s EXCEPT !.enable_filtering =
        IF s.auto_filter
        THEN Len(s.all_choices) > _visible_count(s, s.all_choices, 0)
        ELSE TRUE]

\* FileChooser._prepare_choices
File_prepare_choices(s) ==
    LET at == resolve_current(s.current_path)
        specials == special_entries(at.path, s.choose_dirs)
        names == listed_names(at.path, s.choose_dirs, s.files_at_top)
    IN  _prepare_choices(
            auto_filtering(
                with_listing(s, at.path, specials \o names,
                    initial_index(names, specials, s.choose_dirs,
                                  at.highlighted_file))))

\* str.split()[0]
first_word(str) ==
    IF \E i \in 1..Len(str) : str[i] = " "
    THEN SubSeq(str, 1, (CHOOSE i \in 1..Len(str) :
                            str[i] = " " /\ \A j \in 1..(i - 1) : str[j] # " ") - 1)
    ELSE str

\* Path(self.current_path / selected_name).resolve()
joined(path, selected_name) ==
    IF selected_name = <<".", sep>> THEN path
    ELSE IF selected_name = <<".", ".", sep>> THEN parent(path)
    ELSE Append(path, selected_name[1])

\* FileChooser._on_confirm, line 253: chooser.selected_value is read, and
\* neither FileChooser nor Chooser nor BaseControl has an attribute
\* selected_value
File_on_confirm(s) == missing_attribute(s)

\* FileChooser.__init__
FileChooser_init(initial_path, choose_dirs, files_at_top, auto_filter, wrap, height) ==
    [__init__("Chooser", 0, wrap, TRUE, None, {}, None, None, height,
              NoOverrides, {"before_run", "after_run", "on_change"}, FALSE)
        EXCEPT !.kind = "FileChooser"]
    @@ [current_path |-> initial_path, choose_dirs |-> choose_dirs,
        files_at_top |-> files_at_top, auto_filter |-> auto_filter]

\* the initial_path arguments: the three directories, two files and a path
\* that does not exist
InitialPaths == {<<>>, <<"b">>, <<"b", "e">>, <<"c">>, <<"b", "A">>, <<"z">>}

FileHeights == {Some(5), Some(8)}

FileInit ==
    /\ \E initial_path \in InitialPaths, choose_dirs \in BOOLEAN,
          files_at_top \in BOOLEAN, auto_filter \in BOOLEAN,
          wrap \in BOOLEAN, height \in FileHeights :
          self = FileChooser_init(initial_path, choose_dirs, files_at_top,
                                  auto_filter, wrap, height)
    /\ pc = "idle"
    /\ confirmed = FALSE
    /\ reader = ReaderStart
    /\ iter = IterStart
    /\ life = LifeStart

\* Chooser.run, line 770, for a FileChooser
FilePrepareChoices ==
    /\ pc = "prepare"
    /\ self' = File_prepare_choices(self)
    /\ life' = [life EXCEPT !.prepared = TRUE]
    /\ pc' = IF IsNone(self'.exc) THEN "acquire" ELSE "aborted"
    /\ UNCHANGED <<confirmed, reader, iter>>

\* Chooser.run, lines 773-799, for a FileChooser: on_confirm is
\* FileChooser._on_confirm (file_chooser.py, line 145)
FileSettle ==
    /\ pc = "chosen"
    /\ IF ~confirmed
       THEN /\ self' = Settled([self EXCEPT !.result = Some(NoneNone)])
            /\ pc' = "release"
            /\ life' = [life EXCEPT !.cause = "cancel"]
            /\ iter' = Closed(iter)
       ELSE \E s1 \in {File_on_confirm(self)} :
                /\ self' = s1
                /\ iter' = [iter EXCEPT !.validate = @ + 1, !.on_confirm = @ + 1]
                /\ pc' = IF IsNone(s1.exc) THEN "poll" ELSE "unwind"
                /\ life' = life
    /\ UNCHANGED <<confirmed, reader>>

\* Chooser.run, lines 801-804, and FileChooser.run, lines 270-274
FileAfterRun ==
    /\ pc = "after_run"
    /\ life' = [life EXCEPT
                  !.after_run = @ + 1,
                  !.seen = self.result,
                  !.returned = IF IsNone(Val(self.result).value) THEN None
                               ELSE Some(self.current_path)]
    /\ pc' = "done"
    /\ UNCHANGED <<self, confirmed, reader, iter>>

FileNext ==
    \/ BeforeRun
    \/ FilePrepareChoices
    \/ AcquireReader
    \/ Poll
    \/ ReadKey
    \/ FileSettle
    \/ ReleaseReader
    \/ FileAfterRun

FileSpec == FileInit /\ [][FileNext]_vars

\* the path that confirming the highlighted entry names
ConfirmTarget ==
    IF self.choose_dirs /\ self.highlighted_index = 0 THEN self.current_path
    ELSE joined(self.current_path,
                first_word(self.all_choices[Val(self.highlighted_choice)].value.plain))

\* confirming the highlighted entry is to descend
Descends ==
    IF self.choose_dirs THEN self.highlighted_index # 0 ELSE is_dir(ConfirmTarget)

\* the step that a confirm of the highlighted entry is to take
ConfirmOutcome ==
    IF Descends
    THEN /\ pc' = "poll"
         /\ self'.current_path = ConfirmTarget
         /\ self'.all_choices =
                File_prepare_choices(
                    [self EXCEPT !.current_path = ConfirmTarget]).all_choices
    ELSE /\ pc' = "release"
         /\ self'.current_path = ConfirmTarget

\* C32: in FileChooser in file mode, confirming a directory entry never ends
\* run(): current_path becomes that directory, the confirm hook returns false
\* and the list is rebuilt from the new directory; confirming a regular file
\* ends run() with that file's resolved path; in directory-selection mode only
\* the first entry ends run(), every other entry descends.
C32_FileConfirm ==
    /\ [][(pc = "chosen" /\ confirmed /\ ~IsNone(self.highlighted_choice)) =>
            ConfirmOutcome]_vars
    /\ []((pc = "done" /\ life.cause = "confirm") =>
            life.returned = Some(self.current_path))

\* the display list of a FileChooser whose list has been built
Listed == life.prepared /\ pc \notin {"idle", "prepare", "aborted"}

\* the synthetic entries are the first entries of the display list
SyntheticOnTop ==
    \A i \in 1..Len(special_entries(self.current_path, self.choose_dirs)) :
        /\ i <= Len(_get_display_choices(self))
        /\ _get_display_choices(self)[i] = i

\* C33: in FileChooser the synthetic entries (the self entry or the 'select
\* this directory' entry, and the parent entry) are in the display list and at
\* its top for every filter text, whatever files_at_top is.
C33_SyntheticOnTop == Listed => SyntheticOnTop

\* C33 for an empty filter text
C33_UnfilteredOnTop == (Listed /\ self.filter_text = <<>>) => SyntheticOnTop

----------------------------------------------------------------------------
\* C34: on each confirm attempt _validate_selection runs first and on_confirm
\* is invoked only if it returned no error: on_confirm is never called for a
\* confirm that fails validation, and it is called exactly once for each
\* confirm that passes validation (when the hook is installed).
C34_ValidateThenConfirm ==
    [][(pc = "chosen" /\ confirmed) =>
        /\ iter'.validate = iter.validate + 1
        /\ ~IsNone(_validate_selection(self)) =>
              /\ iter'.on_confirm = iter.on_confirm
              /\ iter'.prepare = iter.prepare
              /\ pc' = "poll"
        /\ (IsNone(_validate_selection(self)) /\ HasHook(self, "on_confirm")) =>
              iter'.on_confirm = iter.on_confirm + 1
        /\ ~HasHook(self, "on_confirm") => iter'.on_confirm = iter.on_confirm]_vars

\* a confirm was rejected by validation, and a later one has passed it and
\* was refused by on_confirm
C34_Witness ==
    /\ HasHook(self, "on_confirm")
    /\ life.rejected
    /\ pc = "poll"
    /\ iter.validate = 1
    /\ iter.on_confirm = 1

----------------------------------------------------------------------------
(* run() of a Chooser without hooks over lists longer than a page *)

MaxNavItems == 8
NavHeights == {Some(4), Some(5), Some(7), Some(10)}

NavInit ==
    /\ \E n \in 0..MaxNavItems, wrap \in BOOLEAN, filtering \in BOOLEAN,
          height \in NavHeights :
          self = __init__("Chooser", n, wrap, filtering, None, {}, None, None,
                          height, NoOverrides, {}, FALSE)
    /\ pc = "idle"
    /\ confirmed = FALSE
    /\ reader = ReaderStart
    /\ iter = IterStart
    /\ life = LifeStart

NavNext ==
    \/ BeforeRun
    \/ PrepareChoices
    \/ AcquireReader
    \/ Poll
    \/ ReadKey
    \/ Settle
    \/ ReleaseReader
    \/ AfterRun

NavSpec == NavInit /\ [][NavNext]_vars

\* C35: home and end set the cursor to the first and the last entry of the
\* display list; page_up and page_down move it by max(1, visibleCount - 1)
\* positions clamped to [0, N-1]; none of the four keys ever wraps, whatever
\* wrap_navigation is.
C35_HomeEndPage ==
    [][(pc = "read" /\ ~IsNone(iter'.key) /\ IsNone(self._error_message)) =>
        LET key == Val(iter'.key)
            n == Len(Display(self))
            h == Cursor(self)
            step == Max2(1, _visible_count(self, Display(self), 0) - 1)
        IN  /\ key \in binding(self, "home") => Cursor(self') = 0
            /\ key \in binding(self, "end") =>
                  Cursor(self') = IF n > 0 THEN n - 1 ELSE 0
            /\ key \in binding(self, "page_up") =>
                  /\ Cursor(self') = Max2(0, h - step)
                  /\ Cursor(self') <= h
            /\ key \in binding(self, "page_down") =>
                  /\ Cursor(self') = IF n > 0 THEN Min2(n - 1, h + step) ELSE 0
                  /\ Cursor(self') >= h
            /\ key \in binding(self, "home") \cup binding(self, "end")
                    \cup binding(self, "page_up") \cup binding(self, "page_down") =>
                  /\ pc' = "poll"
                  /\ Display(self') = Display(self)
                  /\ n > 0 => self'.highlighted_choice =
                                Some(At(Display(self), Cursor(self')))]_vars

\* page_down has moved the cursor by a page of more than one entry to an entry
\* that is not the last one, in a wrapping control
C35_Witness ==
    /\ pc = "poll"
    /\ iter.key = Some("PAGE_DOWN")
    /\ self.wrap_navigation
    /\ Cursor(self) = Max2(1, _visible_count(self, Display(self), 0) - 1)
    /\ Cursor(self) > 1
    /\ Cursor(self) < Len(Display(self)) - 1

----------------------------------------------------------------------------
\* the choices of the master list whose is_highlighted flag is set
HighlightedSet(s) == {r \in 1..Len(s.all_choices) : s.all_choices[r].is_highlighted}

\* C36: in every rendered frame with a non-empty display list, exactly one
\* displayed choice has is_highlighted true and it is the entry at
\* highlighted_filtered_index; no choice outside the display list is
\* highlighted.  This holds with filtering disabled and with filtering enabled.
C36_OneHighlighted ==
    (pc \in {"poll", "read"} /\ Display(self) # <<>>) =>
        /\ Cursor(self) \in 0..(Len(Display(self)) - 1)
        /\ HighlightedSet(self) = {At(Display(self), Cursor(self))}

\* a frame of a filtered list that hides a choice, after the cursor has moved
\* to an entry whose place in the display list is not its place in the master
\* list
C36_Witness ==
    /\ pc = "poll"
    /\ self.enable_filtering
    /\ self.filter_text # <<>>
    /\ iter.key = Some("DOWN_ARROW")
    /\ Len(Display(self)) < Len(self.all_choices)
    /\ Cursor(self) > 0
    /\ At(Display(self), Cursor(self)) # Cursor(self) + 1
    /\ self.all_choices[At(Display(self), Cursor(self))].is_highlighted

\* C37: after_run is invoked before the KeyReader is released: at the moment
\* after_run runs, the reader scope acquired by run() is still held, and the
\* release follows it.
C37_AfterRunBeforeRelease ==
    /\ [][life'.after_run = life.after_run + 1 => reader.held]_vars
    /\ [](pc = "done" => ~reader.held)

\* what the code does instead: after_run runs when the reader scope has been
\* left
C37_AfterRunAfterRelease ==
    [][life'.after_run = life.after_run + 1 =>
        (~reader.held /\ reader.exited = reader.entered /\ reader' = reader)]_vars

----------------------------------------------------------------------------
\* C38: in the scrolling case the number of arrow rows plus the number of
\* choice rows emitted equals max_items exactly, with at least one choice row
\* and end = start + choiceRows <= N; in the non-scrolling case exactly N
\* choice rows and no arrow row are emitted.
C38_RowsEmitted ==
    /\ Scrolls =>
        /\ int(iter.window.show_up_arrow) + int(iter.window.show_down_arrow)
                + iter.choice_rows = iter.max_items
        /\ iter.choice_rows >= 1
        /\ iter.window.end = iter.window.start + iter.choice_rows
        /\ iter.window.end <= Len(Display(self))
    /\ (Shown /\ ~Scrolls) =>
        /\ iter.choice_rows = Len(Display(self))
        /\ int(iter.window.show_up_arrow) + int(iter.window.show_down_arrow) = 0

\* a scrolling frame whose start was pulled back so that the window ends with
\* the list: one arrow row and max_items - 1 choice rows
C38_Witness ==
    /\ Scrolls
    /\ iter.window.show_up_arrow
    /\ iter.window.start < first_start(Cursor(self), iter.max_items) + 1
    /\ iter.window.end = Len(Display(self))
    /\ iter.choice_rows = iter.max_items - 1

\* the frame on display scrolls and shows both arrow rows
BothArrows(frame) == frame.window.show_up_arrow /\ frame.window.show_down_arrow

\* the frame of the control on display once the cursor has moved down by one
FrameBelow == Frame(goto(self, Cursor(self) + 1).self)

\* C39: in the scrolling case, while both arrow rows are shown, the
\* highlighted row sits exactly min(SCROLL_TOP_OFFSET, max_items // 2) rows
\* below the first row of the list area (the up-arrow row counted as row 0),
\* so moving the cursor by one inside that region moves the window by exactly
\* one.
C39_CursorRow ==
    (Scrolls /\ BothArrows(iter)) =>
        /\ 1 + (Cursor(self) - iter.window.start)
                = Min2(SCROLL_TOP_OFFSET, iter.max_items \div 2)
        /\ (Cursor(self) + 1 < Len(Display(self)) /\ BothArrows(FrameBelow)) =>
              /\ FrameBelow.window.start = iter.window.start + 1
              /\ FrameBelow.window.end = iter.window.end + 1

\* a frame with both arrows in which half of max_items is less than
\* SCROLL_TOP_OFFSET, and whose window moves along with the cursor
C39_Witness ==
    /\ Scrolls
    /\ BothArrows(iter)
    /\ iter.max_items \div 2 < SCROLL_TOP_OFFSET
    /\ Cursor(self) - iter.window.start = 1
    /\ Cursor(self) + 1 < Len(Display(self))
    /\ BothArrows(FrameBelow)

----------------------------------------------------------------------------
\* C40: if on_key is absent or passes keys through and should_exit is absent,
\* then whenever the key stream delivers two consecutive cancel keys run()
\* terminates with (None, None) no later than the second of them: the first
\* can at most dismiss an error overlay, and an overlay is never displayed
\* again without an intervening confirm.
C40_TwoCancelsEnd ==
    ~HasHook(self, "should_exit") =>
        /\ life.cancels <= 2
        /\ (life.cancels >= 1 /\ pc \in {"poll", "read"}) =>
              /\ life.cancels = 1
              /\ IsNone(self._error_message)
              /\ life.rejected
        /\ life.cancels = 2 =>
              /\ pc \in {"chosen", "release", "after_run", "done"}
              /\ ~confirmed
              /\ pc # "chosen" => self.result = Some(NoneNone)
              /\ pc = "done" => life.returned = Some(NoneNone)

\* the first of two consecutive cancel keys dismissed an error overlay, the
\* second one ended run() with (None, None)
C40_Witness ==
    /\ ~HasHook(self, "should_exit")
    /\ life.cancels = 2
    /\ pc = "done"
    /\ life.cause = "cancel"
    /\ life.returned = Some(NoneNone)

====
